---- MODULE Spec2Model ----
(***************************************************************************)
(* A model of safecd's proposal synchronisation: the in-memory entity      *)
(* store (class State), the nonce resolution of syncProposals, the         *)
(* recursive syncProposal with its child approval proposals, and the       *)
(* submission step, followed by the re-synchronisation of a Safe's         *)
(* transactions from the transaction service.                              *)
(***************************************************************************)
EXTENDS Integers, Sequences, FiniteSets, TLC

(***************************************************************************)
(* Bounds of the model.                                                    *)
(***************************************************************************)
\* largest number written as a decimal literal in a nonce text
MaxNum == 9
\* number of top-level proposal files in a repository of the nonce family
MaxNonceProps == 2
\* number of sync runs in one behaviour
MaxRuns == 2
\* depth of the syncProposal recursion that is explored
MaxDepth == 3

(***************************************************************************)
(* The universe: addresses and delegates.                                  *)
(***************************************************************************)
\* Safes monitored by the repository (files under ./safes)
Safes == {"P", "C", "B"}
\* externally owned accounts: provider.getCode(address) = '0x'
EOAs == {"E"}
\* contracts that are not a Safe of the store
Unmonitored == {"X"}
\* the delegate of every proposal, and a second delegate address
Delegates == {"D", "D2"}

(***************************************************************************)
(* Nonce texts.  The nonce field of a proposal is a string; it is modelled *)
(* as the sequence of its tokens: a decimal literal ("0", "1", ...), an    *)
(* identifier or the operator "+".  NoNonce stands for an undefined field. *)
(***************************************************************************)
NoNonce == <<>>

NumTok(i) == ToString(i)

IsNumTok(t) == \E i \in 0..MaxNum : NumTok(i) = t

TokVal(t) == CHOOSE i \in 0..MaxNum : NumTok(i) = t

\* Number.prototype.toString of a nonce
NonceToString(n) == <<NumTok(n)>>

\* the value JavaScript uses for NaN; no nonce of the model is negative
NaN == -1

\* parseInt(text): the leading decimal digits of the text, NaN if there are none
ParseInt(text) ==
    IF Len(text) > 0 /\ IsNumTok(text[1]) THEN TokVal(text[1]) ELSE NaN

\* String.prototype.includes('a'): the identifiers that contain the letter a
IncludesA(text) == \E i \in 1..Len(text) : text[i] \in {"a", "auto"}

\* the parameters of getNonce(a,auto,n,nonce,pn,pendingNonce)
Bindings == {"a", "auto", "n", "nonce", "pn", "pendingNonce"}

IsTerm(t) == IsNumTok(t) \/ t \in Bindings

\* term (+ term)*: the expressions safeEval evaluates without throwing
ValidExpr(text) ==
    /\ Len(text) % 2 = 1
    /\ \A i \in 1..Len(text) : IF i % 2 = 1 THEN IsTerm(text[i]) ELSE text[i] = "+"

TermVal(t, c) ==
    IF IsNumTok(t) THEN TokVal(t)
    ELSE IF t \in {"a", "auto"} THEN c.auto
    ELSE IF t \in {"n", "nonce"} THEN c.nonce
    ELSE c.pendingNonce

RECURSIVE SumTerms(_, _, _)
SumTerms(text, i, c) ==
    IF i > Len(text) THEN 0 ELSE TermVal(text[i], c) + SumTerms(text, i + 2, c)

\* safeEval(`function getNonce(...) {return ${text};}`)(auto, auto, nonce, nonce, pn, pn)
EvalExpr(text, c) == SumTerms(text, 1, c)


(***************************************************************************)
(* Hashes.  A safeTxHash is determined by the Safe, the nonce and the      *)
(* payload of the transaction; an approveHash transaction carries the hash *)
(* it approves in its payload, so a hash is the chain of (safe, nonce)     *)
(* links down to the payload of the root proposal.  uc tells whether the   *)
(* text is written with upper-case digits, ok whether it is the hash the   *)
(* deployed Safe contract computes for these parameters.                   *)
(***************************************************************************)
NoHash == [links |-> <<>>, payload |-> "", uc |-> FALSE, ok |-> TRUE]

\* String.prototype.toLowerCase on a hash
ToLowerCase(h) == [h EXCEPT !.uc = FALSE]

\* the hash the deployed Safe contract returns for (safe, nonce, payload)
ContractHash(safe, nonce, payload, parent) ==
    [links |-> <<[safe |-> safe, nonce |-> nonce]>> \o parent.links,
     payload |-> payload, uc |-> FALSE, ok |-> TRUE]

NoChildOf == [safe |-> "", hash |-> NoHash]

(***************************************************************************)
(* The state.                                                              *)
(***************************************************************************)
VARIABLES
    \* class State (the entity store)
    safes,              \* address -> [owners, delegates]: what getSafeByAddress returns
    transactions,       \* TransactionEntity[]: [path, del, entity]
    transactionBySafe,  \* { [safe]: number[] }, a missing key is undefined
    transactionByHash,  \* { [hash]: number }
    proposals,          \* ProposalEntity[]: [path, del, entity]
    proposalByHash,     \* { [hash]: number }
    proposalsBySafe,    \* { [safe]: number[] }
    \* SafeCDKit and the outside world
    shouldUpload,       \* --upload
    shouldWrite,        \* not --dry-run
    signers,            \* delegates whose private key is loaded
    mismatch,           \* Safes for which the SDK hash differs from the contract's
    flaky,              \* whether the simulator, the service and Slack can fail in this behaviour
    slack,              \* the messages of the Slack channels: [channel, status], ts = position
    service,            \* the multisig transactions the transaction service holds
    \* one call of syncProposals
    pc,                 \* where the run is
    err,                \* the error that aborted the run, "" if none
    run,                \* number of the current sync run
    proposalIndexes,    \* pending top-level proposals, in store order
    cursor,             \* position of the two resolution loops in proposalIndexes
    nonces,             \* { [safe]: NonceData }
    resolved,           \* the local map `proposals`: safe -> [idx, nonce][]
    safeKeys,           \* Object.keys(proposals), in insertion order
    item,               \* position in the sorted list of the Safe being processed
    stack,              \* the activations of syncProposal, innermost last
    hasProposedOne,     \* the result of syncProposals
    \* what the run did to the outside world
    signedLog,          \* the calls of signTransactionHash, with the proposal's nonce field
    proposeLog,         \* the calls of proposeTransaction that succeeded
    manifests,          \* the manifest files written: path -> error ("" if none)
    syncLog,            \* the calls of syncProposal, as its first line logs them
    \* class State: the Safes and the EOAs
    safeEntities,       \* State.safes, SafeEntity[]: [path, del, entity]
    safeByAddress,      \* { [address]: number }
    safeByName,         \* { [name]: number }
    eoas,               \* EOAEntity[]: [path, del, entity]
    eoaByAddress,       \* { [address]: number }
    eoaByName,          \* { [name]: number }
    lastCall,           \* the method of State called last, and its index argument
    \* the working directory
    disk,               \* the entity files: path -> content
    saveResult,         \* the SaveResult of the last save(): the counts of its commit
    touched             \* the files the sync runs have created, modified or deleted so far

storeVars == <<safes, transactions, transactionBySafe, transactionByHash,
               proposals, proposalByHash, proposalsBySafe>>
kitVars == <<shouldUpload, shouldWrite, signers, mismatch, flaky, slack>>
runVars == <<pc, err, run, proposalIndexes, cursor, item, nonces, resolved, safeKeys,
             stack, hasProposedOne>>
worldVars == <<service, signedLog, proposeLog, manifests, syncLog>>
apiVars == <<safeEntities, safeByAddress, safeByName, eoas, eoaByAddress, eoaByName,
             lastCall>>
diskVars == <<disk, saveResult, touched>>
vars == <<storeVars, kitVars, runVars, worldVars, apiVars, diskVars>>

(***************************************************************************)
(* Helpers on sequences and on JavaScript objects used as maps.            *)
(***************************************************************************)
Null == -1

Range(s) == {s[i] : i \in 1..Len(s)}

MaxOf(S) == CHOOSE m \in S : \A x \in S : x <= m

\* delete obj[key]
Delete(obj, key) == [k \in DOMAIN obj \ {key} |-> obj[k]]

\* obj[key] = value
Put(obj, key, value) == [k \in DOMAIN obj \cup {key} |-> IF k = key THEN value ELSE obj[k]]

\* Array.prototype.filter(i => i !== index)
FilterOut(s, index) == SelectSeq(s, LAMBDA i : i # index)

\* the files of that kind that differ between the directories a and b
Touched(kind, a, b) ==
    {[kind |-> kind, path |-> q] :
        q \in {r \in DOMAIN a \cup DOMAIN b : r \notin DOMAIN a \/ r \notin DOMAIN b \/ a[r] # b[r]}}


(***************************************************************************)
(* class State: the operations on proposals.  Array indexes are 1-based    *)
(* here (slot i is proposals[i-1] of the code); ps is the record of the    *)
(* three proposal fields of the store.                                     *)
(***************************************************************************)
ProposalStore == [proposals |-> proposals, byHash |-> proposalByHash, bySafe |-> proposalsBySafe]

\* a lookup that compares paths that were not made relative: nothing is found
proposalExists_NeverFound(ps, path) == 0

\* State.proposalExists: the first slot with that path, 0 for -1
proposalExists(ps, path) ==
    IF \E i \in 1..Len(ps.proposals) : ps.proposals[i].path = path
    THEN CHOOSE i \in 1..Len(ps.proposals) :
             /\ ps.proposals[i].path = path
             /\ \A j \in 1..(i - 1) : ps.proposals[j].path # path
    ELSE 0

\* State.createProposal throws when the hash is already indexed
createProposalThrows(ps, proposal) ==
    /\ proposal.safeTxHash # NoHash
    /\ ToLowerCase(proposal.safeTxHash) \in DOMAIN ps.byHash

\* State.createProposal, when it does not throw
createProposal(ps, path, proposal) ==
    LET index == Len(ps.proposals) + 1
        entity == IF proposal.safeTxHash # NoHash
                  THEN [proposal EXCEPT !.safeTxHash = ToLowerCase(@)]
                  ELSE proposal
        byHash == IF proposal.safeTxHash # NoHash
                  THEN Put(ps.byHash, entity.safeTxHash, index)
                  ELSE ps.byHash
        key == proposal.safe
        list == IF key \in DOMAIN ps.bySafe THEN ps.bySafe[key] ELSE <<>>
    IN  [proposals |-> Append(ps.proposals, [path |-> path, del |-> FALSE, entity |-> entity]),
         byHash |-> byHash,
         bySafe |-> Put(ps.bySafe, key, Append(list, index))]

\* State.writeProposal throws when the index is out of bounds
writeProposalThrows(ps, index) == index < 1 \/ index > Len(ps.proposals)

\* State.writeProposal with a proposal that is not null and an index in bounds
writeProposal(ps, index, proposal) ==
    LET current == ps.proposals[index].entity
        byHash1 == IF current.safeTxHash # NoHash
                   THEN Delete(ps.byHash, ToLowerCase(current.safeTxHash))
                   ELSE ps.byHash
        entity == IF proposal.safeTxHash # NoHash
                  THEN [proposal EXCEPT !.safeTxHash = ToLowerCase(@)]
                  ELSE proposal
        byHash2 == IF proposal.safeTxHash # NoHash
                   THEN Put(byHash1, entity.safeTxHash, index)
                   ELSE byHash1
        key == current.safe
        list == IF key \in DOMAIN ps.bySafe THEN ps.bySafe[key] ELSE <<>>
    IN  [proposals |-> [ps.proposals EXCEPT ![index] = [@ EXCEPT !.entity = entity, !.del = FALSE]],
         byHash |-> byHash2,
         bySafe |-> Put(ps.bySafe, key, Append(list, index))]

\* null, where a proposal is expected
NullProposal ==
    [title |-> "", safe |-> "", delegate |-> "", function |-> "", childOf |-> NoChildOf,
     nonce |-> NoNonce, safeTxHash |-> NoHash, createChildProposals |-> FALSE]

\* State.getProposalByHash
getProposalByHash(ps, hash) ==
    IF ToLowerCase(hash) \notin DOMAIN ps.byHash
    THEN NullProposal
    ELSE ps.proposals[ps.byHash[ToLowerCase(hash)]].entity

(***************************************************************************)
(* class State: the operations on transactions; ts is the record of the    *)
(* three transaction fields of the store.                                  *)
(***************************************************************************)
TransactionStore == [transactions |-> transactions, bySafe |-> transactionBySafe, byHash |-> transactionByHash]

\* State.createTransaction throws when the hash is already indexed
createTransactionThrows(ts, tx) == ToLowerCase(tx.safeTxHash) \in DOMAIN ts.byHash

\* State.createTransaction, when it does not throw
createTransaction(ts, path, tx) ==
    LET index == Len(ts.transactions) + 1
        list == IF tx.safe \in DOMAIN ts.bySafe THEN ts.bySafe[tx.safe] ELSE <<>>
    IN  [transactions |-> Append(ts.transactions, [path |-> path, del |-> FALSE, entity |-> tx]),
         bySafe |-> Put(ts.bySafe, tx.safe, Append(list, index)),
         byHash |-> Put(ts.byHash, ToLowerCase(tx.safeTxHash), index)]

\* State.writeTransaction and State.unbindTransaction throw when the index is out of bounds
transactionIndexThrows(ts, index) == index < 1 \/ index > Len(ts.transactions)

\* both call .filter on transactionBySafe[safe of the slot's entity]: a TypeError
\* when that key is missing
transactionSafeThrows(ts, index) == ts.transactions[index].entity.safe \notin DOMAIN ts.bySafe

\* State.writeTransaction with a transaction that is not null and an index in bounds
writeTransaction(ts, index, tx) ==
    LET current == ts.transactions[index].entity
        transactionSafe == current.safe
        transactionHash == ToLowerCase(current.safeTxHash)
        filtered == FilterOut(ts.bySafe[transactionSafe], index)
    IN  [transactions |-> [ts.transactions EXCEPT ![index] =
                              [@ EXCEPT !.entity = [tx EXCEPT !.safeTxHash = ToLowerCase(@)],
                                        !.del = FALSE]],
         bySafe |-> Put(ts.bySafe, transactionSafe, Append(filtered, index)),
         byHash |-> Put(Delete(ts.byHash, transactionHash), transactionHash, index)]

\* State.unbindTransaction with an index in bounds
unbindTransaction(ts, index) ==
    LET current == ts.transactions[index].entity
    IN  [transactions |-> ts.transactions,
         bySafe |-> Put(ts.bySafe, current.safe, FilterOut(ts.bySafe[current.safe], index)),
         byHash |-> Delete(ts.byHash, ToLowerCase(current.safeTxHash))]

\* null, where a transaction is expected
NullTransaction == [safe |-> "", nonce |-> Null, executionDate |-> FALSE, safeTxHash |-> NoHash]

\* State.getTransactionByHash
getTransactionByHash(ts, hash) ==
    IF ToLowerCase(hash) \notin DOMAIN ts.byHash
    THEN NullTransaction
    ELSE ts.transactions[ts.byHash[ToLowerCase(hash)]].entity

\* reading .length of transactionBySafe[safe] throws a TypeError when the key is missing
nonceLookupThrows(safe) == safe \notin DOMAIN transactionBySafe

\* State.getHighestProposalNonce, for a Safe whose key exists
getHighestProposalNonce(safe) ==
    LET transactionIndexes == transactionBySafe[safe]
    IN  IF Len(transactionIndexes) = 0 THEN Null
        ELSE MaxOf({0} \cup {transactions[transactionIndexes[i]].entity.nonce :
                                 i \in 1..Len(transactionIndexes)})

\* State.getHighestExecutedProposalNonce, for a Safe whose key exists
getHighestExecutedProposalNonce(safe) ==
    LET transactionIndexes == transactionBySafe[safe]
    IN  IF Len(transactionIndexes) = 0 THEN Null
        ELSE MaxOf({0} \cup {transactions[transactionIndexes[i]].entity.nonce :
                                 i \in {j \in 1..Len(transactionIndexes) :
                                          transactions[transactionIndexes[j]].entity.executionDate}})

\* State.getSafeByAddress(address) !== null
safeIsMonitored(address) == address \in DOMAIN safes


(***************************************************************************)
(* syncProposals: the nonce resolution.                                    *)
(***************************************************************************)
\* the NonceData built from the transactions of `safe`
NonceDataOf(safe) ==
    LET pendingNonce == getHighestProposalNonce(safe)
        nonce == getHighestExecutedProposalNonce(safe)
    IN  [nonce |-> IF nonce # Null THEN nonce + 1 ELSE 0,
         pendingNonce |-> IF pendingNonce # Null THEN pendingNonce + 1 ELSE 0,
         auto |-> IF nonce # Null THEN nonce + 1 ELSE 0]

\* a resolution that counts a literal equal to auto as a use of auto, as it
\* does for an expression
ResolveExplicit_LiteralAdvancesAuto(text, c) ==
    LET parsed == ParseInt(text)
    IN  IF parsed # NaN
        THEN [throws |-> FALSE, nonce |-> parsed,
              counters |-> IF parsed = c.auto THEN [c EXCEPT !.auto = @ + 1] ELSE c]
        ELSE IF ~ValidExpr(text)
        THEN [throws |-> TRUE, nonce |-> NaN, counters |-> c]
        ELSE LET value == EvalExpr(text, c)
             IN  [throws |-> FALSE, nonce |-> value,
                  counters |-> IF value = c.auto /\ IncludesA(text)
                               THEN [c EXCEPT !.auto = @ + 1]
                               ELSE c]

\* the resolution of a nonce field that is defined, under the counters c:
\* parseInt first, the expression only when parseInt gives NaN
ResolveExplicit(text, c) ==
    LET parsed == ParseInt(text)
    IN  IF parsed # NaN
        THEN [throws |-> FALSE, nonce |-> parsed, counters |-> c]
        ELSE IF ~ValidExpr(text)
        THEN [throws |-> TRUE, nonce |-> NaN, counters |-> c]
        ELSE LET value == EvalExpr(text, c)
             IN  [throws |-> FALSE, nonce |-> value,
                  counters |-> IF value = c.auto /\ IncludesA(text)
                               THEN [c EXCEPT !.auto = @ + 1]
                               ELSE c]

\* Array.prototype.sort((a, b) => a.nonce - b.nonce): stable, ascending
RECURSIVE InsertByNonce(_, _)
InsertByNonce(sorted, x) ==
    IF sorted = <<>> THEN <<x>>
    ELSE IF sorted[Len(sorted)].nonce <= x.nonce THEN Append(sorted, x)
    ELSE Append(InsertByNonce(SubSeq(sorted, 1, Len(sorted) - 1), x), sorted[Len(sorted)])

RECURSIVE SortByNonce(_)
SortByNonce(list) ==
    IF list = <<>> THEN <<>>
    ELSE InsertByNonce(SortByNonce(SubSeq(list, 1, Len(list) - 1)), list[Len(list)])

\* the run is aborted by an exception nobody catches
Abort(kind) ==
    /\ pc' = "error"
    /\ err' = kind
    /\ UNCHANGED <<run, proposalIndexes, cursor, item, nonces, resolved, safeKeys,
                   stack, hasProposedOne>>

\* a selection that forgets to skip the proposals already submitted
PendingTopLevel_AllTopLevel ==
    SelectSeq([i \in 1..Len(proposals) |-> i],
              LAMBDA i : proposals[i].entity.childOf = NoChildOf)

\* the pending top-level proposals, in the order of the store (lines 594-604)
PendingTopLevel ==
    SelectSeq([i \in 1..Len(proposals) |-> i],
              LAMBDA i : /\ proposals[i].entity.safeTxHash = NoHash
                         /\ proposals[i].entity.childOf = NoChildOf)

StartSyncProposals ==
    /\ pc = "start"
    /\ UNCHANGED <<apiVars, diskVars>>
    /\ proposalIndexes' = PendingTopLevel
    /\ pc' = IF PendingTopLevel = <<>> THEN "done" ELSE "resolve"
    /\ cursor' = 1
    /\ item' = 1
    /\ nonces' = <<>>
    /\ resolved' = <<>>
    /\ safeKeys' = <<>>
    /\ hasProposedOne' = FALSE
    /\ UNCHANGED <<err, run, stack, storeVars, kitVars, worldVars>>

\* one iteration of the loop of lines 609-663
ResolveStep ==
    /\ pc = "resolve"
    /\ UNCHANGED <<apiVars, diskVars>>
    /\ LET proposal == proposals[proposalIndexes[cursor]].entity
           safe == proposal.safe
       IN  IF ~safeIsMonitored(safe) THEN Abort("Safe not found")
           ELSE IF safe \notin DOMAIN nonces /\ nonceLookupThrows(safe) THEN Abort("TypeError")
           ELSE LET c == IF safe \in DOMAIN nonces THEN nonces[safe] ELSE NonceDataOf(safe)
                    list == IF safe \in DOMAIN resolved THEN resolved[safe] ELSE <<>>
                    r == ResolveExplicit(proposal.nonce, c)
                IN  IF proposal.nonce # NoNonce /\ r.throws
                    THEN Abort("Invalid nonce expression")
                    ELSE /\ nonces' = Put(nonces, safe, IF proposal.nonce # NoNonce THEN r.counters ELSE c)
                         /\ resolved' = Put(resolved, safe,
                                IF proposal.nonce # NoNonce
                                THEN Append(list, [idx |-> proposalIndexes[cursor], nonce |-> r.nonce])
                                ELSE list)
                         /\ safeKeys' = IF safe \in DOMAIN resolved THEN safeKeys ELSE Append(safeKeys, safe)
                         /\ IF cursor < Len(proposalIndexes)
                            THEN cursor' = cursor + 1 /\ pc' = pc
                            ELSE cursor' = 1 /\ pc' = "auto"
                         /\ UNCHANGED <<err, run, proposalIndexes, item, stack, hasProposedOne>>
    /\ UNCHANGED <<storeVars, kitVars, worldVars>>

\* a resolution that stores the nonce it assigns in the proposal's nonce field
AutoStep_WritesNonce ==
    /\ pc = "auto"
    /\ UNCHANGED <<apiVars, diskVars>>
    /\ LET index == proposalIndexes[cursor]
           proposal == proposals[index].entity
           safe == proposal.safe
       IN  /\ IF proposal.nonce = NoNonce
              THEN /\ resolved' = [resolved EXCEPT ![safe] =
                                      Append(@, [idx |-> index, nonce |-> nonces[safe].auto])]
                   /\ nonces' = [nonces EXCEPT ![safe].auto = @ + 1]
                   /\ proposals' = [proposals EXCEPT ![index].entity.nonce =
                                                        NonceToString(nonces[safe].auto)]
              ELSE UNCHANGED <<resolved, nonces, proposals>>
           /\ IF cursor < Len(proposalIndexes)
              THEN cursor' = cursor + 1 /\ pc' = pc
              ELSE cursor' = 1 /\ pc' = "process"
    /\ UNCHANGED <<err, run, proposalIndexes, item, safeKeys, stack, hasProposedOne>>
    /\ UNCHANGED <<safes, transactions, transactionBySafe, transactionByHash,
                   proposalByHash, proposalsBySafe, kitVars, worldVars>>

\* one iteration of the loop of lines 665-676
AutoStep ==
    /\ pc = "auto"
    /\ UNCHANGED <<apiVars, diskVars>>
    /\ LET index == proposalIndexes[cursor]
           proposal == proposals[index].entity
           safe == proposal.safe
       IN  /\ IF proposal.nonce = NoNonce
              THEN /\ resolved' = [resolved EXCEPT ![safe] =
                                      Append(@, [idx |-> index, nonce |-> nonces[safe].auto])]
                   /\ nonces' = [nonces EXCEPT ![safe].auto = @ + 1]
              ELSE UNCHANGED <<resolved, nonces>>
           /\ IF cursor < Len(proposalIndexes)
              THEN cursor' = cursor + 1 /\ pc' = pc
              ELSE cursor' = 1 /\ pc' = "process"
    /\ UNCHANGED <<err, run, proposalIndexes, item, safeKeys, stack, hasProposedOne>>
    /\ UNCHANGED <<storeVars, kitVars, worldVars>>


(***************************************************************************)
(* syncProposal.  An activation is a frame of `stack`:                     *)
(*   idx          the slot of proposalConfig in the store (the entity is   *)
(*                shared by reference between the store and the activation)*)
(*   nonce        the nonce parameter                                      *)
(*   phase        "simulate", "estimate", "owners" or "return"             *)
(*   pos          position of the for-of loop over safe.owners             *)
(*   ownerIdx     the counter ownerIdx of that loop                        *)
(*   hash         the result of safeKit.getTransactionHash                 *)
(*   results      childResults, and at "return" the list that is returned  *)
(***************************************************************************)
NewFrame(idx, nonce, phase) ==
    [idx |-> idx, nonce |-> nonce, phase |-> phase, pos |-> 1, ownerIdx |-> 0,
     hash |-> NoHash, results |-> <<>>]

Top == stack[Len(stack)]

TopProposal == proposals[Top.idx].entity

\* one element of the list syncProposal returns: [proposal, manifest, prefix, hasProposed]
Result(idx, error, hasProposed) == [idx |-> idx, error |-> error, hasProposed |-> hasProposed]

\* the stack after the innermost activation has returned `list`: the caller
\* appends it to its childResults and goes on with the next owner
ReturnTo(stk, list) ==
    IF Len(stk) = 1
    THEN <<[stk[1] EXCEPT !.phase = "return", !.results = list]>>
    ELSE LET caller == stk[Len(stk) - 1]
         IN  Append(SubSeq(stk, 1, Len(stk) - 2),
                    [caller EXCEPT !.results = @ \o list,
                                   !.pos = @ + 1,
                                   !.ownerIdx = @ + 1])

\* line 859: what a call of syncProposal logs, and the run it belongs to
SyncCall(path, proposal, nonce) ==
    [path |-> path, safe |-> proposal.safe, child |-> proposal.childOf # NoChildOf,
     nonce |-> nonce, run |-> run]

\* a delegate check that finds every address registered
delegateExists_Always(safe, address) == TRUE

\* delegateExists(safe, address)
delegateExists(safe, address) == address \in safes[safe].delegates

\* isEOA(address, scdk)
isEOA(address) == address \in EOAs

\* the submission step guarded by --upload alone, --dry-run forgotten
ShouldSubmit_UploadOnly == shouldUpload

\* the guard of the submission step
ShouldSubmit == shouldWrite /\ shouldUpload

\* the hash safeKit.getTransactionHash(safeTx) returns for the activation
SdkHash(proposal, nonce) ==
    LET payload == IF proposal.childOf # NoChildOf
                   THEN proposal.childOf.hash.payload
                   ELSE proposal.function
        h == ContractHash(proposal.safe, nonce, payload, proposal.childOf.hash)
    IN  IF proposal.safe \in mismatch THEN [h EXCEPT !.ok = FALSE] ELSE h

\* the outcomes of the forge simulation the model explores
SimOutcomes == IF flaky THEN {"ok", "error", "empty", "no manifest", "not a CALL"} ELSE {"ok"}

\* the outcomes of the calls of the transaction service the model explores
ServiceOutcomes == IF flaky THEN {"ok", "error"} ELSE {"ok"}

\* lines 680-692: the next proposal of the Safe being processed, its list sorted first
BeginProposal ==
    /\ pc = "process"
    /\ UNCHANGED <<apiVars, diskVars>>
    /\ stack = <<>>
    /\ LET safe == safeKeys[cursor]
           sorted == SortByNonce(resolved[safe])
           entry == sorted[item]
           proposal == proposals[entry.idx].entity
       IN  /\ item <= Len(sorted)
           /\ resolved' = [resolved EXCEPT ![safe] = sorted]
           /\ IF proposal.childOf # NoChildOf
              THEN stack' = <<NewFrame(entry.idx, entry.nonce, "estimate")>> /\ UNCHANGED <<pc, err>>
              ELSE IF proposal.function # ""
              THEN stack' = <<NewFrame(entry.idx, entry.nonce, "simulate")>> /\ UNCHANGED <<pc, err>>
              ELSE pc' = "error" /\ err' = "Invalid proposal" /\ UNCHANGED stack
           /\ syncLog' = Append(syncLog, SyncCall(proposals[entry.idx].path, proposal, entry.nonce))
    /\ UNCHANGED <<run, proposalIndexes, cursor, item, nonces, safeKeys, hasProposedOne>>
    /\ UNCHANGED <<storeVars, kitVars, service, signedLog, proposeLog, manifests>>

\* lines 1056-1165: the forge script, its broadcast manifest and the Safe transaction
Simulate ==
    /\ pc = "process"
    /\ UNCHANGED <<apiVars, diskVars>>
    /\ stack # <<>>
    /\ Top.phase = "simulate"
    /\ \E outcome \in SimOutcomes :
          CASE outcome = "ok" ->
                 /\ stack' = [stack EXCEPT ![Len(stack)].phase = "estimate"]
                 /\ UNCHANGED <<pc, err>>
            [] outcome = "error" ->
                 /\ stack' = ReturnTo(stack, <<Result(Top.idx, "Proposal simulation error", FALSE)>>)
                 /\ UNCHANGED <<pc, err>>
            [] outcome = "empty" ->
                 /\ stack' = ReturnTo(stack, <<Result(Top.idx, "No transactions found", FALSE)>>)
                 /\ UNCHANGED <<pc, err>>
            [] outcome = "no manifest" ->
                 /\ pc' = "error" /\ err' = "ENOENT" /\ UNCHANGED stack
            [] outcome = "not a CALL" ->
                 /\ pc' = "error" /\ err' = "Unsupported transctionType" /\ UNCHANGED stack
    /\ UNCHANGED <<run, proposalIndexes, cursor, item, nonces, resolved, safeKeys, hasProposedOne>>
    /\ UNCHANGED <<storeVars, kitVars, worldVars>>

\* an estimation whose failure is thrown to the caller of syncProposals
Estimate_ThrowsOnError ==
    /\ pc = "process"
    /\ UNCHANGED <<apiVars, diskVars>>
    /\ stack # <<>>
    /\ Top.phase = "estimate"
    /\ \E outcome \in ServiceOutcomes :
          IF outcome = "ok"
          THEN /\ stack' = [stack EXCEPT ![Len(stack)] =
                               [@ EXCEPT !.phase = "owners",
                                         !.hash = SdkHash(TopProposal, Top.nonce),
                                         !.pos = IF TopProposal.createChildProposals
                                                 THEN 1
                                                 ELSE Len(safes[TopProposal.safe].owners) + 1]]
               /\ UNCHANGED <<pc, err>>
          ELSE pc' = "error" /\ err' = "Safe estimation error" /\ UNCHANGED stack
    /\ UNCHANGED <<run, proposalIndexes, cursor, item, nonces, resolved, safeKeys,
                   hasProposedOne>>
    /\ UNCHANGED <<storeVars, kitVars, worldVars>>

\* lines 1167-1193 and 881-908: the estimation, then the transaction hash
Estimate ==
    /\ pc = "process"
    /\ UNCHANGED <<apiVars, diskVars>>
    /\ stack # <<>>
    /\ Top.phase = "estimate"
    /\ \E outcome \in ServiceOutcomes :
          IF outcome = "ok"
          THEN stack' = [stack EXCEPT ![Len(stack)] =
                            [@ EXCEPT !.phase = "owners",
                                      !.hash = SdkHash(TopProposal, Top.nonce),
                                      !.pos = IF TopProposal.createChildProposals
                                              THEN 1
                                              ELSE Len(safes[TopProposal.safe].owners) + 1]]
          ELSE stack' = ReturnTo(stack, <<Result(Top.idx, "Safe estimation error", FALSE)>>)
    /\ UNCHANGED <<pc, err, run, proposalIndexes, cursor, item, nonces, resolved, safeKeys,
                   hasProposedOne>>
    /\ UNCHANGED <<storeVars, kitVars, worldVars>>


\* the path of a top-level proposal file and of a synthesized child,
\* `${hash}.${ownerIdx}.child.proposal.yaml`, in the directory of the root proposal
TopLevelPath(file) == [parent |-> NoHash, ownerIdx |-> 0, file |-> file]

ChildPath(hash, ownerIdx) == [parent |-> hash, ownerIdx |-> ownerIdx, file |-> ""]

\* childProposalConfig of lines 1211-1230 and 926-945
ChildProposalConfig(proposal, safe, hash, ownerSafe) ==
    [title |-> "Approval", safe |-> ownerSafe, delegate |-> proposal.delegate,
     function |-> "", childOf |-> [safe |-> safe, hash |-> hash],
     nonce |-> NoNonce, safeTxHash |-> NoHash, createChildProposals |-> TRUE]

\* the Safe whose transactions initialise the counters of ownerSafe
\* (lines 1243-1244 and 958-959 pass `safe`, the Safe of the parent)
NonceSourceOf(safe, ownerSafe) == safe

\* a loop over the owners that does not wait for the child: the parent goes on
\* with its next owner and its submission, the child is processed afterwards
OwnerStep_ParentFirst ==
    /\ pc = "process"
    /\ UNCHANGED <<apiVars, diskVars>>
    /\ stack # <<>>
    /\ Top.phase = "owners"
    /\ LET proposal == TopProposal
           safe == proposal.safe
           owners == safes[safe].owners
           owner == owners[Top.pos]
           path == ChildPath(Top.hash, Top.ownerIdx)
           child == ChildProposalConfig(proposal, safe, Top.hash, owner)
           proposalIndex == proposalExists(ProposalStore, path)
           ps == IF proposalIndex = 0
                 THEN createProposal(ProposalStore, path, child)
                 ELSE writeProposal(ProposalStore, proposalIndex, child)
           childIdx == IF proposalIndex = 0 THEN Len(proposals) + 1 ELSE proposalIndex
           source == NonceSourceOf(safe, owner)
           c == IF owner \in DOMAIN nonces THEN nonces[owner] ELSE NonceDataOf(source)
       IN  /\ Top.pos <= Len(owners)
           /\ IF isEOA(owner) \/ ~safeIsMonitored(owner)
              THEN /\ stack' = [stack EXCEPT ![Len(stack)] =
                                   [@ EXCEPT !.pos = @ + 1, !.ownerIdx = @ + 1]]
                   /\ UNCHANGED <<pc, err, nonces, proposals, proposalByHash, proposalsBySafe,
                                  syncLog>>
              ELSE IF ~delegateExists(owner, proposal.delegate)
              THEN /\ stack' = [stack EXCEPT ![Len(stack)].pos = @ + 1]
                   /\ UNCHANGED <<pc, err, nonces, proposals, proposalByHash, proposalsBySafe,
                                  syncLog>>
              ELSE /\ Len(stack) < MaxDepth
                   /\ proposals' = ps.proposals
                   /\ proposalByHash' = ps.byHash
                   /\ proposalsBySafe' = ps.bySafe
                   /\ IF owner \notin DOMAIN nonces /\ nonceLookupThrows(source)
                      THEN /\ pc' = "error" /\ err' = "TypeError"
                           /\ UNCHANGED <<stack, nonces, syncLog>>
                      ELSE /\ nonces' = Put(nonces, owner, [c EXCEPT !.auto = @ + 1])
                           /\ stack' = SubSeq(stack, 1, Len(stack) - 1) \o
                                       <<NewFrame(childIdx, c.auto, "estimate"),
                                         [Top EXCEPT !.pos = @ + 1, !.ownerIdx = @ + 1]>>
                           /\ syncLog' = Append(syncLog, SyncCall(path, child, c.auto))
                           /\ UNCHANGED <<pc, err>>
    /\ UNCHANGED <<run, proposalIndexes, cursor, item, resolved, safeKeys, hasProposedOne>>
    /\ UNCHANGED <<safes, transactions, transactionBySafe, transactionByHash>>
    /\ UNCHANGED <<kitVars, service, signedLog, proposeLog, manifests>>

\* lines 1195-1269 and 910-984: one iteration of the loop over safe.owners
OwnerStep ==
    /\ pc = "process"
    /\ UNCHANGED <<apiVars, diskVars>>
    /\ stack # <<>>
    /\ Top.phase = "owners"
    /\ LET proposal == TopProposal
           safe == proposal.safe
           owners == safes[safe].owners
           owner == owners[Top.pos]
           path == ChildPath(Top.hash, Top.ownerIdx)
           child == ChildProposalConfig(proposal, safe, Top.hash, owner)
           proposalIndex == proposalExists(ProposalStore, path)
           ps == IF proposalIndex = 0
                 THEN createProposal(ProposalStore, path, child)
                 ELSE writeProposal(ProposalStore, proposalIndex, child)
           childIdx == IF proposalIndex = 0 THEN Len(proposals) + 1 ELSE proposalIndex
           source == NonceSourceOf(safe, owner)
           c == IF owner \in DOMAIN nonces THEN nonces[owner] ELSE NonceDataOf(source)
       IN  /\ Top.pos <= Len(owners)
           /\ IF isEOA(owner) \/ ~safeIsMonitored(owner)
              THEN /\ stack' = [stack EXCEPT ![Len(stack)] =
                                   [@ EXCEPT !.pos = @ + 1, !.ownerIdx = @ + 1]]
                   /\ UNCHANGED <<pc, err, nonces, proposals, proposalByHash, proposalsBySafe,
                                  syncLog>>
              ELSE IF ~delegateExists(owner, proposal.delegate)
              THEN /\ stack' = [stack EXCEPT ![Len(stack)].pos = @ + 1]
                   /\ UNCHANGED <<pc, err, nonces, proposals, proposalByHash, proposalsBySafe,
                                  syncLog>>
              ELSE /\ Len(stack) < MaxDepth
                   /\ proposals' = ps.proposals
                   /\ proposalByHash' = ps.byHash
                   /\ proposalsBySafe' = ps.bySafe
                   /\ IF owner \notin DOMAIN nonces /\ nonceLookupThrows(source)
                      THEN /\ pc' = "error" /\ err' = "TypeError"
                           /\ UNCHANGED <<stack, nonces, syncLog>>
                      ELSE /\ nonces' = Put(nonces, owner, [c EXCEPT !.auto = @ + 1])
                           /\ stack' = Append(stack, NewFrame(childIdx, c.auto, "estimate"))
                           /\ syncLog' = Append(syncLog, SyncCall(path, child, c.auto))
                           /\ UNCHANGED <<pc, err>>
    /\ UNCHANGED <<run, proposalIndexes, cursor, item, resolved, safeKeys, hasProposedOne>>
    /\ UNCHANGED <<safes, transactions, transactionBySafe, transactionByHash>>
    /\ UNCHANGED <<kitVars, service, signedLog, proposeLog, manifests>>

\* the transaction the service records for a proposeTransaction payload
ProposedTransaction(safe, nonce, hash) ==
    [safe |-> safe, nonce |-> nonce, executionDate |-> FALSE, safeTxHash |-> hash,
     trusted |-> TRUE]

\* lines 1271-1340 and 986-1055: the submission step and the return
Submit ==
    /\ pc = "process"
    /\ UNCHANGED <<apiVars, diskVars>>
    /\ stack # <<>>
    /\ Top.phase = "owners"
    /\ Top.pos > Len(safes[TopProposal.safe].owners)
    /\ LET proposal == TopProposal
           safe == proposal.safe
           call == [safe |-> safe, nonce |-> Top.nonce, hash |-> Top.hash,
                    path |-> proposals[Top.idx].path, field |-> proposal.nonce, run |-> run]
       IN  IF ~ShouldSubmit
           THEN /\ stack' = ReturnTo(stack, <<Result(Top.idx, "", FALSE)>> \o Top.results)
                /\ UNCHANGED <<pc, err, proposals, signedLog, proposeLog, service>>
           ELSE IF ~delegateExists(safe, proposal.delegate)
           THEN /\ pc' = "error" /\ err' = "Delegate not found"
                /\ UNCHANGED <<stack, proposals, signedLog, proposeLog, service>>
           ELSE IF proposal.delegate \notin signers
           THEN /\ pc' = "error" /\ err' = "Signer not loaded"
                /\ UNCHANGED <<stack, proposals, signedLog, proposeLog, service>>
           ELSE /\ signedLog' = Append(signedLog, call)
                /\ \E outcome \in ServiceOutcomes :
                      IF outcome = "ok"
                      THEN /\ proposeLog' = Append(proposeLog, call)
                           /\ service' = Append(service, ProposedTransaction(safe, Top.nonce, Top.hash))
                           /\ proposals' = [proposals EXCEPT ![Top.idx].entity =
                                               [@ EXCEPT !.safeTxHash = Top.hash,
                                                         !.nonce = NonceToString(Top.nonce)]]
                           /\ stack' = ReturnTo(stack, <<Result(Top.idx, "", TRUE)>> \o Top.results)
                           /\ UNCHANGED <<pc, err>>
                      ELSE /\ pc' = "error" /\ err' = "Proposal creation error"
                           /\ UNCHANGED <<stack, proposals, proposeLog, service>>
    /\ UNCHANGED <<run, proposalIndexes, cursor, item, nonces, resolved, safeKeys, hasProposedOne>>
    /\ UNCHANGED <<safes, transactions, transactionBySafe, transactionByHash,
                   proposalByHash, proposalsBySafe>>
    /\ UNCHANGED <<kitVars, manifests, syncLog>>

\* lines 693-710 for the results list[i..]: the manifest file, then the store
RECURSIVE ApplyResults(_, _, _)
ApplyResults(acc, list, i) ==
    IF i > Len(list) THEN acc
    ELSE LET r == list[i]
             entity == acc.ps.proposals[r.idx].entity
             path == acc.ps.proposals[r.idx].path
             proposalIndex == proposalExists(acc.ps, path)
         IN  IF acc.throws THEN acc
             ELSE IF proposalIndex = 0 /\ createProposalThrows(acc.ps, entity)
             THEN [acc EXCEPT !.throws = TRUE, !.manifests = Put(@, path, r.error)]
             ELSE ApplyResults(
                    [ps |-> IF proposalIndex > 0
                            THEN writeProposal(acc.ps, proposalIndex, entity)
                            ELSE createProposal(acc.ps, path, entity),
                     manifests |-> Put(acc.manifests, path, r.error),
                     hasProposed |-> acc.hasProposed \/ r.hasProposed,
                     throws |-> FALSE],
                    list, i + 1)

\* lines 693-712: the results of a top-level syncProposal, then the next proposal
CompleteProposal ==
    /\ pc = "process"
    /\ UNCHANGED <<apiVars, disk, saveResult>>
    /\ stack # <<>>
    /\ Top.phase = "return"
    /\ LET out == ApplyResults([ps |-> ProposalStore, manifests |-> manifests,
                                hasProposed |-> hasProposedOne, throws |-> FALSE],
                               Top.results, 1)
           safe == safeKeys[cursor]
       IN  /\ proposals' = out.ps.proposals
           /\ proposalByHash' = out.ps.byHash
           /\ proposalsBySafe' = out.ps.bySafe
           /\ manifests' = out.manifests
           /\ touched' = touched \cup Touched("manifest", manifests, out.manifests)
           /\ hasProposedOne' = out.hasProposed
           /\ IF out.throws
              THEN pc' = "error" /\ err' = "Proposal already exists" /\ UNCHANGED <<stack, cursor, item>>
              ELSE /\ stack' = <<>>
                   /\ err' = err
                   /\ IF item < Len(resolved[safe])
                      THEN item' = item + 1 /\ cursor' = cursor /\ pc' = pc
                      ELSE /\ item' = 1
                           /\ cursor' = cursor + 1
                           /\ pc' = IF cursor < Len(safeKeys) THEN pc ELSE "done"
    /\ UNCHANGED <<run, proposalIndexes, nonces, resolved, safeKeys>>
    /\ UNCHANGED <<safes, transactions, transactionBySafe, transactionByHash>>
    /\ UNCHANGED <<kitVars, service, signedLog, proposeLog, syncLog>>


(***************************************************************************)
(* syncSafe: the transactions of a Safe, as the transaction service        *)
(* returns them, are merged into the store (lines 333-358).                *)
(***************************************************************************)
\* the order of scdk.state.safes
SafeList == <<"P", "C", "B">>

\* hasFinalizedForNonce
hasFinalizedForNonce(txs, nonce) ==
    \E i \in 1..Len(txs) : txs[i].nonce = nonce /\ txs[i].executionDate

\* `./transactions/${safe.name}/${nonce}.${safeTxHash}${pending ? '.pending.' : '.'}yaml`
TransactionPath(tx) ==
    [safe |-> tx.safe, nonce |-> tx.nonce, hash |-> tx.safeTxHash, pending |-> ~tx.executionDate]

\* a loop that also stores the pending transactions another transaction of
\* the same nonce has superseded
MergeTransaction_KeepsSuperseded(ts, txs, tx) ==
    LET path == TransactionPath(tx)
        key == ToLowerCase(tx.safeTxHash)
    IN  IF ~tx.trusted THEN ts
        ELSE IF key \notin DOMAIN ts.byHash THEN createTransaction(ts, path, tx)
        ELSE IF ts.transactions[ts.byHash[key]].path = path
        THEN writeTransaction(ts, ts.byHash[key], tx)
        ELSE createTransaction(unbindTransaction(ts, ts.byHash[key]), path, tx)

\* the body of the loop of lines 334-358 for one transaction of the response
MergeTransaction(ts, txs, tx) ==
    LET path == TransactionPath(tx)
        key == ToLowerCase(tx.safeTxHash)
    IN  IF ~tx.trusted THEN ts
        ELSE IF ~tx.executionDate /\ hasFinalizedForNonce(txs, tx.nonce) THEN ts
        ELSE IF key \notin DOMAIN ts.byHash THEN createTransaction(ts, path, tx)
        ELSE IF ts.transactions[ts.byHash[key]].path = path
        THEN writeTransaction(ts, ts.byHash[key], tx)
        ELSE createTransaction(unbindTransaction(ts, ts.byHash[key]), path, tx)

RECURSIVE MergeTransactions(_, _, _)
MergeTransactions(ts, txs, i) ==
    IF i > Len(txs) THEN ts
    ELSE MergeTransactions(MergeTransaction(ts, txs, txs[i]), txs, i + 1)

\* getMultisigTransactions(safe.address)
TransactionsOf(svc, safe) == SelectSeq(svc, LAMBDA tx : tx.safe = safe)

\* syncSafes, as far as the transactions of the store are concerned
RECURSIVE SyncSafeTransactions(_, _, _)
SyncSafeTransactions(ts, svc, i) ==
    IF i > Len(SafeList) THEN ts
    ELSE SyncSafeTransactions(
            MergeTransactions(ts, TransactionsOf(svc, SafeList[i]), 1), svc, i + 1)

EmptyTransactionStore == [transactions |-> <<>>, bySafe |-> <<>>, byHash |-> <<>>]

EmptyProposalStore == [proposals |-> <<>>, byHash |-> <<>>, bySafe |-> <<>>]

\* State.loadProposals over the proposal files, in directory order
RECURSIVE LoadProposals(_, _, _)
LoadProposals(ps, files, i) ==
    IF i > Len(files) THEN ps
    ELSE LoadProposals(createProposal(ps, files[i].path, files[i].entity), files, i + 1)


\* State.loadTransactions over the transaction files save() left on disk
RECURSIVE LoadTransactions(_, _, _)
LoadTransactions(ts, slots, i) ==
    IF i > Len(slots) THEN ts
    ELSE IF slots[i].del THEN LoadTransactions(ts, slots, i + 1)
    ELSE LET index == Len(ts.transactions) + 1
             tx == slots[i].entity
             list == IF tx.safe \in DOMAIN ts.bySafe THEN ts.bySafe[tx.safe] ELSE <<>>
         IN  LoadTransactions(
                [transactions |-> Append(ts.transactions,
                                         [path |-> slots[i].path, del |-> TRUE, entity |-> tx]),
                 bySafe |-> Put(ts.bySafe, tx.safe, Append(list, index)),
                 byHash |-> Put(ts.byHash, ToLowerCase(tx.safeTxHash), index)],
                slots, i + 1)

(***************************************************************************)
(* class State: the operations on Safes and EOAs.  ss is the record of the *)
(* three Safe fields of the store, es the record of the three EOA fields.  *)
(***************************************************************************)
\* utils.getAddress: the checksummed form of an address, whatever its letter case
getAddress(address) ==
    CASE address = "p" -> "P"
      [] address = "c" -> "C"
      [] address = "e" -> "E"
      [] OTHER -> address

\* null, where a Safe or an EOA is expected
NullEntity == [address |-> "", name |-> ""]

SafeStore == [safes |-> safeEntities, byAddress |-> safeByAddress, byName |-> safeByName]

EOAStore == [eoas |-> eoas, byAddress |-> eoaByAddress, byName |-> eoaByName]

\* State.createSafe throws when the address or the name is indexed
createSafeThrows(ss, safe) ==
    \/ getAddress(safe.address) \in DOMAIN ss.byAddress
    \/ safe.name \in DOMAIN ss.byName

\* State.createSafe, when it does not throw
createSafe(ss, path, safe) ==
    LET safeAddress == getAddress(safe.address)
        safeIndex == Len(ss.safes) + 1
    IN  [safes |-> Append(ss.safes, [path |-> path, del |-> FALSE, entity |-> safe]),
         byAddress |-> Put(ss.byAddress, safeAddress, safeIndex),
         byName |-> Put(ss.byName, safe.name, safeIndex)]

\* State.writeSafe throws when the index is out of bounds
writeSafeThrows(ss, index) == index < 1 \/ index > Len(ss.safes)

\* State.writeSafe with an index in bounds
writeSafe(ss, index, safe) ==
    LET currentSafe == ss.safes[index].entity
    IN  IF safe = NullEntity
        THEN [ss EXCEPT !.safes[index].del = TRUE]
        ELSE LET safeName == currentSafe.name
                 safeAddress == getAddress(currentSafe.address)
                 entity == [safe EXCEPT !.address = getAddress(@)]
             IN  [safes |-> [ss.safes EXCEPT ![index] = [@ EXCEPT !.entity = entity, !.del = FALSE]],
                  byAddress |-> Put(Delete(ss.byAddress, safeAddress), entity.address, index),
                  byName |-> Put(Delete(ss.byName, safeName), entity.name, index)]

\* State.createEOA throws when the address or the name is indexed
createEOAThrows(es, eoa) ==
    \/ getAddress(eoa.address) \in DOMAIN es.byAddress
    \/ eoa.name \in DOMAIN es.byName

\* State.createEOA, when it does not throw
createEOA(es, path, eoa) ==
    LET eoaAddress == getAddress(eoa.address)
        eoaIndex == Len(es.eoas) + 1
    IN  [eoas |-> Append(es.eoas, [path |-> path, del |-> FALSE, entity |-> eoa]),
         byAddress |-> Put(es.byAddress, eoaAddress, eoaIndex),
         byName |-> Put(es.byName, eoa.name, eoaIndex)]

\* State.getSafeByName
getSafeByName(ss, name) ==
    IF name \notin DOMAIN ss.byName THEN NullEntity ELSE ss.safes[ss.byName[name]].entity

\* State.getSafeByAddress
getSafeByAddress(ss, address) ==
    IF getAddress(address) \notin DOMAIN ss.byAddress
    THEN NullEntity
    ELSE ss.safes[ss.byAddress[getAddress(address)]].entity

\* State.getEOAByAddress
getEOAByAddress(es, address) ==
    IF getAddress(address) \notin DOMAIN es.byAddress
    THEN NullEntity
    ELSE es.eoas[es.byAddress[getAddress(address)]].entity

(***************************************************************************)
(* The repositories and environments the model starts from.                *)
(***************************************************************************)
\* a transaction the service already holds when the first run starts
Tx(safe, nonce, executed) ==
    [safe |-> safe, nonce |-> nonce, executionDate |-> executed,
     safeTxHash |-> ContractHash(safe, nonce, "sent", NoHash), trusted |-> TRUE]

\* the histories of a Safe: no transaction, a pending one, an executed one,
\* an executed one followed by a pending one
TxConfigs(s) ==
    { <<>>,
      <<Tx(s, 0, FALSE)>>,
      <<Tx(s, 0, TRUE)>>,
      <<Tx(s, 0, TRUE), Tx(s, 1, FALSE)>> }

EmptySafeStore == [safes |-> <<>>, byAddress |-> <<>>, byName |-> <<>>]

EmptyEOAStore == [eoas |-> <<>>, byAddress |-> <<>>, byName |-> <<>>]

\* `${dir}/${name}.yaml`
EntityPath(dir, name) == [dir |-> dir, name |-> name]

\* State.loadSafes: one slot per file of the safes directory; with distinct Safes it
\* leaves the store as createSafe does.  A Safe is named by its address here.
RECURSIVE LoadSafes(_, _, _)
LoadSafes(ss, list, i) ==
    IF i > Len(list) THEN ss
    ELSE LoadSafes(createSafe(ss, EntityPath("safes", list[i]), [address |-> list[i], name |-> list[i]]),
                   list, i + 1)

(***************************************************************************)
(* State.save: the terminal commit of the store to the working directory.  *)
(***************************************************************************)
\* yamlToString: the one text the serializer gives for an entity
yamlToString(entity) == [of |-> entity, layout |-> "dumped"]

\* the same entity as somebody wrote it by hand: another text
HandWritten(entity) == [of |-> entity, layout |-> "by hand"]

\* relativify('./safecd.yaml') and the configuration loaded from it
ConfigPath == EntityPath(".", "safecd.yaml")

GlobalConfig == [network |-> "mainnet", title |-> "safecd"]

\* the SaveResult save() starts from
NoSaveResult == [edits |-> 0, creations |-> 0, deletions |-> 0, message |-> <<>>]

\* a save that writes and counts an edit whatever the file holds
saveEntity_AlwaysWrites(entity, acc) ==
    LET contentToWrite == yamlToString(entity.entity)
        exists == entity.path \in DOMAIN acc.disk
    IN  IF entity.del
        THEN IF exists
             THEN [disk |-> Delete(acc.disk, entity.path),
                   commit |-> [acc.commit EXCEPT !.deletions = @ + 1,
                                                 !.message = Append(@, <<"delete", entity.path>>)]]
             ELSE acc
        ELSE IF exists
        THEN [disk |-> Put(acc.disk, entity.path, contentToWrite),
              commit |-> [acc.commit EXCEPT !.edits = @ + 1,
                                            !.message = Append(@, <<"edit", entity.path>>)]]
        ELSE [disk |-> Put(acc.disk, entity.path, contentToWrite),
              commit |-> [acc.commit EXCEPT !.creations = @ + 1,
                                            !.message = Append(@, <<"create", entity.path>>)]]

\* State.saveEntity; acc is the working directory and the SaveResult so far
saveEntity(entity, acc) ==
    LET contentToWrite == yamlToString(entity.entity)
        exists == entity.path \in DOMAIN acc.disk
    IN  IF entity.del
        THEN IF exists
             THEN [disk |-> Delete(acc.disk, entity.path),
                   commit |-> [acc.commit EXCEPT !.deletions = @ + 1,
                                                 !.message = Append(@, <<"delete", entity.path>>)]]
             ELSE acc
        ELSE IF exists
        THEN IF acc.disk[entity.path] = contentToWrite
             THEN acc
             ELSE [disk |-> Put(acc.disk, entity.path, contentToWrite),
                   commit |-> [acc.commit EXCEPT !.edits = @ + 1,
                                                 !.message = Append(@, <<"edit", entity.path>>)]]
        ELSE [disk |-> Put(acc.disk, entity.path, contentToWrite),
              commit |-> [acc.commit EXCEPT !.creations = @ + 1,
                                            !.message = Append(@, <<"create", entity.path>>)]]

\* the entities save() goes through, in its order
SavedEntities ==
    <<[path |-> ConfigPath, del |-> FALSE, entity |-> GlobalConfig]>>
       \o safeEntities \o eoas \o transactions \o proposals

\* the first k calls of saveEntity that save() makes
RECURSIVE SaveUpTo(_, _, _)
SaveUpTo(list, k, acc) ==
    IF k = 0 THEN acc ELSE saveEntity(list[k], SaveUpTo(list, k - 1, acc))

\* State.save on the working directory d
save(d) == SaveUpTo(SavedEntities, Len(SavedEntities), [disk |-> d, commit |-> NoSaveResult])

\* the files a load found: every entity of the list, as the serializer writes it
RECURSIVE FilesOf(_, _)
FilesOf(list, d) ==
    IF list = <<>> THEN d
    ELSE FilesOf(Tail(list), Put(d, Head(list).path, yamlToString(Head(list).entity)))

\* a call of a method of State: the method and the index it is given (0 if none)
ApiCall(op, index) == [op |-> op, index |-> index]

NoCall == ApiCall("", 0)

\* the names of the proposal files, in directory order
FileNames == <<"f1", "f2", "f3", "f4", "f5", "f6">>

\* a top-level proposal file
ProposalFile(file, safe, nonce, ccp) ==
    [path |-> TopLevelPath(file),
     entity |-> [title |-> file, safe |-> safe, delegate |-> "D", function |-> file,
                 childOf |-> NoChildOf, nonce |-> nonce, safeTxHash |-> NoHash,
                 createChildProposals |-> ccp]]

\* the nonce fields of the nonce family: literals, expressions, invalid texts
NonceTexts ==
    { <<"0">>, <<"1">>, <<"2">>, <<"5">>,
      <<"a">>, <<"n">>, <<"pn">>, <<"a", "+", "1">>, <<"n", "+", "2">>, <<"1", "+", "a">>,
      <<"0", "+", "a">>,
      <<"x">>, <<"a", "+">>, <<"1", "x">> }

SeqsUpTo(S, n) == UNION {[1..k -> S] : k \in 1..n}

FlatOwners == [s \in Safes |-> <<"E">>]

AllDelegate == [s \in Safes |-> {"D"}]

\* the nonce family: one Safe, every mix of nonce fields, no upload
NonceFamily ==
    { [owners |-> FlatOwners, delegates |-> AllDelegate,
       txs |-> [s \in Safes |-> IF s = "C" THEN t ELSE <<>>],
       props |-> [i \in DOMAIN ns |-> ProposalFile(FileNames[i], "C", ns[i], FALSE)],
       upload |-> FALSE, write |-> TRUE, signers |-> {"D"}, mismatch |-> {}, flaky |-> FALSE] :
      ns \in SeqsUpTo(NonceTexts \cup {NoNonce}, MaxNonceProps), t \in TxConfigs("C") }

\* the owners and delegates of the tree family: P is owned by an EOA, by the
\* Safe C or by C and a contract that is no Safe; C carries the delegate or not
TreeOwners == { [s \in Safes |-> IF s = "P" THEN o ELSE <<"E">>] :
                o \in { <<"E">>, <<"E", "C">>, <<"X", "C">> } }

TreeDelegates == { [s \in Safes |-> IF s = "C" THEN d ELSE {"D"}] : d \in { {"D"}, {"D2"} } }

\* the proposals of the tree family: one or two files, on P or C, without a
\* nonce field or with the literal 1
TreeProps ==
    { [i \in DOMAIN ps |-> ProposalFile(FileNames[i], ps[i].safe, ps[i].nonce, ps[i].ccp)] :
      ps \in SeqsUpTo([safe : {"P", "C"}, nonce : {NoNonce, <<"1">>}, ccp : BOOLEAN], 2) }

TreeFamily ==
    { [owners |-> o, delegates |-> d,
       txs |-> [s \in Safes |-> <<Tx(s, 0, TRUE)>>],
       props |-> ps, upload |-> m.upload, write |-> m.write,
       signers |-> {"D"}, mismatch |-> {}, flaky |-> FALSE] :
      o \in TreeOwners, d \in TreeDelegates, ps \in TreeProps,
      m \in [upload : BOOLEAN, write : BOOLEAN] }

\* the fault family: one proposal on P that is uploaded, while the delegate may
\* be unknown to P, its key may be missing, the simulator and the service may
\* fail, and the SDK may compute a hash the Safe contract does not agree with
FaultFamily ==
    { [owners |-> o, delegates |-> [s \in Safes |-> IF s = "P" THEN d ELSE {"D"}],
       txs |-> [s \in Safes |-> <<Tx(s, 0, TRUE)>>],
       props |-> <<ProposalFile(FileNames[1], "P", NoNonce, TRUE)>>,
       upload |-> TRUE, write |-> TRUE,
       signers |-> k, mismatch |-> mm, flaky |-> f] :
      o \in { FlatOwners, [s \in Safes |-> IF s = "P" THEN <<"E", "C">> ELSE <<"E">>] },
      d \in { {"D"}, {"D2"} }, k \in { {"D"}, {} }, mm \in SUBSET {"P", "C"}, f \in BOOLEAN }

\* the owner family: one proposal on P with createChildProposals; the owners
\* of P mix an EOA, a contract that is no Safe and the Safes B and C, which
\* carry the delegate or not; C and B may own each other or be owned by P's
\* own tree; C has no transaction or two executed ones
OwnerFamily ==
    { [owners |-> [s \in Safes |-> IF s = "P" THEN op ELSE IF s = "C" THEN oc ELSE ob],
       delegates |-> [s \in Safes |-> IF s = "P" THEN {"D"} ELSE IF s = "C" THEN dc ELSE db],
       txs |-> [s \in Safes |-> IF s = "C" THEN tc ELSE <<Tx(s, 0, TRUE)>>],
       props |-> <<ProposalFile(FileNames[1], "P", NoNonce, TRUE)>>,
       upload |-> u, write |-> TRUE,
       signers |-> {"D"}, mismatch |-> {}, flaky |-> FALSE] :
      op \in { <<"E", "X", "B", "C">>, <<"B", "C">>, <<"C", "B">>, <<"C">> },
      oc \in { <<"E">>, <<"B">>, <<"P">> },
      ob \in { <<"E">>, <<"C">> },
      dc \in { {"D"}, {"D2"} }, db \in { {"D"}, {"D2"} },
      tc \in { <<>>, <<Tx("C", 0, TRUE), Tx("C", 1, TRUE)>> },
      u \in BOOLEAN }

Scenarios == NonceFamily \cup TreeFamily \cup FaultFamily \cup OwnerFamily

\* the service's transactions of a scenario, Safe after Safe
InitialService(sc) == sc.txs["P"] \o sc.txs["C"] \o sc.txs["B"]

\* the state after State.load and the first syncSafes of the run
Init ==
    \E sc \in Scenarios :
       LET ts == SyncSafeTransactions(EmptyTransactionStore, InitialService(sc), 1)
           ps == LoadProposals(EmptyProposalStore, sc.props, 1)
       IN  /\ safes = [s \in Safes |-> [owners |-> sc.owners[s], delegates |-> sc.delegates[s]]]
           /\ transactions = ts.transactions
           /\ transactionBySafe = ts.bySafe
           /\ transactionByHash = ts.byHash
           /\ proposals = ps.proposals
           /\ proposalByHash = ps.byHash
           /\ proposalsBySafe = ps.bySafe
           /\ shouldUpload = sc.upload
           /\ shouldWrite = sc.write
           /\ signers = sc.signers
           /\ mismatch = sc.mismatch
           /\ flaky = sc.flaky
           /\ slack = <<>>
           /\ service = InitialService(sc)
           /\ pc = "start"
           /\ err = ""
           /\ run = 1
           /\ proposalIndexes = <<>>
           /\ cursor = 1
           /\ item = 1
           /\ nonces = <<>>
           /\ resolved = <<>>
           /\ safeKeys = <<>>
           /\ stack = <<>>
           /\ hasProposedOne = FALSE
           /\ signedLog = <<>>
           /\ proposeLog = <<>>
           /\ manifests = <<>>
           /\ syncLog = <<>>
           /\ LET ss == LoadSafes(EmptySafeStore, SafeList, 1)
                  es == createEOA(EmptyEOAStore, EntityPath("eoas", "E"), [address |-> "E", name |-> "E"])
              IN  /\ safeEntities = ss.safes
                  /\ safeByAddress = ss.byAddress
                  /\ safeByName = ss.byName
                  /\ eoas = es.eoas
                  /\ eoaByAddress = es.byAddress
                  /\ eoaByName = es.byName
           /\ lastCall = NoCall
           \* the files load() read: the transaction files come with the first save
           /\ disk = FilesOf(<<[path |-> ConfigPath, entity |-> GlobalConfig]>>
                                \o safeEntities \o eoas \o proposals, <<>>)
           /\ saveResult = NoSaveResult
           /\ touched = {}

\* stage 3 of the sync command: after an upload the Safes are synced again
SyncSafes ==
    /\ pc = "done"
    /\ UNCHANGED <<apiVars, diskVars>>
    /\ hasProposedOne
    /\ LET ts == SyncSafeTransactions(TransactionStore, service, 1)
       IN  /\ transactions' = ts.transactions
           /\ transactionBySafe' = ts.bySafe
           /\ transactionByHash' = ts.byHash
    /\ pc' = "synced"
    /\ UNCHANGED <<err, run, proposalIndexes, cursor, item, nonces, resolved, safeKeys,
                   stack, hasProposedOne>>
    /\ UNCHANGED <<safes, proposals, proposalByHash, proposalsBySafe, kitVars, worldVars>>

\* the end of the sync command (lines 251-257): the store is saved, whatever
\* --dry-run says
Save ==
    /\ pc = "synced" \/ (pc = "done" /\ ~hasProposedOne)
    /\ disk' = save(disk).disk
    /\ saveResult' = save(disk).commit
    /\ touched' = touched \cup Touched("entity", disk, save(disk).disk)
    /\ pc' = "saved"
    /\ UNCHANGED <<err, run, proposalIndexes, cursor, item, nonces, resolved, safeKeys,
                   stack, hasProposedOne>>
    /\ UNCHANGED <<storeVars, kitVars, worldVars, apiVars>>

\* the run saves the store and ends; a proposal file without a nonce field is
\* added to the repository; the next run loads the files and syncs the Safes.
\* Only the runs without --dry-run are followed by another run here.
NewRun ==
    /\ pc = "synced" \/ (pc = "done" /\ ~hasProposedOne)
    /\ UNCHANGED apiVars
    /\ shouldWrite
    /\ run < MaxRuns
    /\ Len(proposals) < Len(FileNames)
    /\ \E safe \in Safes :
          LET file == ProposalFile(FileNames[Len(proposals) + 1], safe, NoNonce, FALSE)
              saved == SelectSeq(proposals, LAMBDA p : ~p.del)
              ps == LoadProposals(EmptyProposalStore, Append(saved, file), 1)
              ts == SyncSafeTransactions(
                       LoadTransactions(EmptyTransactionStore, transactions, 1), service, 1)
          IN  /\ proposals' = ps.proposals
              /\ proposalByHash' = ps.byHash
              /\ proposalsBySafe' = ps.bySafe
              /\ transactions' = ts.transactions
              /\ transactionBySafe' = ts.bySafe
              /\ transactionByHash' = ts.byHash
              /\ disk' = Put(save(disk).disk, file.path, yamlToString(file.entity))
    /\ saveResult' = NoSaveResult
    /\ touched' = touched \cup Touched("entity", disk, save(disk).disk)
    /\ pc' = "start"
    /\ run' = run + 1
    /\ UNCHANGED <<err, proposalIndexes, cursor, item, nonces, resolved, safeKeys,
                   stack, hasProposedOne>>
    /\ UNCHANGED <<safes, kitVars, worldVars>>

Next ==
    \/ StartSyncProposals
    \/ ResolveStep
    \/ AutoStep
    \/ BeginProposal
    \/ Simulate
    \/ Estimate
    \/ OwnerStep
    \/ Submit
    \/ CompleteProposal
    \/ SyncSafes
    \/ NewRun

Spec == Init /\ [][Next]_vars

\* one run of the sync command, to its terminal save
CommandNext ==
    \/ StartSyncProposals
    \/ ResolveStep
    \/ AutoStep
    \/ BeginProposal
    \/ Simulate
    \/ Estimate
    \/ OwnerStep
    \/ Submit
    \/ CompleteProposal
    \/ SyncSafes
    \/ Save

CommandSpec == Init /\ [][CommandNext]_vars

(***************************************************************************)
(* The entity store on its own: a repository that starts empty and any     *)
(* sequence of calls of the create methods and of writeSafe.  A call that  *)
(* throws leaves its message in err, a call that returns empties err.      *)
(***************************************************************************)
\* the most entities the store holds
MaxEntities == 3

\* the Safes the callers pass: two that share nothing, and one that has the
\* address of the second, written in lower case, and the name of the first
ApiSafes ==
    { [address |-> "P", name |-> "main"],
      [address |-> "C", name |-> "ops"],
      [address |-> "c", name |-> "main"] }

ApiEOAs == [address : {"E", "e"}, name : {"alice", "bob"}]

\* hashes as the callers write them: the second is the first in upper case
ApiHashes ==
    { ContractHash("P", 0, "sent", NoHash),
      [ContractHash("P", 0, "sent", NoHash) EXCEPT !.uc = TRUE],
      ContractHash("P", 1, "sent", NoHash) }

Entities == Len(safeEntities) + Len(eoas) + Len(transactions) + Len(proposals)

\* no sync run is going on: the store is called directly
NoRun ==
    /\ safes = [s \in Safes |-> [owners |-> FlatOwners[s], delegates |-> AllDelegate[s]]]
    /\ lastCall = NoCall
    /\ shouldUpload = FALSE
    /\ shouldWrite = TRUE
    /\ signers = {}
    /\ mismatch = {}
    /\ flaky = FALSE
    /\ slack = <<>>
    /\ service = <<>>
    /\ pc = "api"
    /\ err = ""
    /\ run = 1
    /\ proposalIndexes = <<>>
    /\ cursor = 1
    /\ item = 1
    /\ nonces = <<>>
    /\ resolved = <<>>
    /\ safeKeys = <<>>
    /\ stack = <<>>
    /\ hasProposedOne = FALSE
    /\ signedLog = <<>>
    /\ proposeLog = <<>>
    /\ manifests = <<>>
    /\ syncLog = <<>>
    /\ saveResult = NoSaveResult

EmptyStore ==
    /\ transactions = <<>>
    /\ transactionBySafe = <<>>
    /\ transactionByHash = <<>>
    /\ proposals = <<>>
    /\ proposalByHash = <<>>
    /\ proposalsBySafe = <<>>
    /\ safeEntities = <<>>
    /\ safeByAddress = <<>>
    /\ safeByName = <<>>
    /\ eoas = <<>>
    /\ eoaByAddress = <<>>
    /\ eoaByName = <<>>

\* a repository with its configuration file and nothing else
StoreInit ==
    /\ NoRun
    /\ EmptyStore
    /\ disk = FilesOf(<<[path |-> ConfigPath, entity |-> GlobalConfig]>>, <<>>)
    /\ touched = {}

\* the call c returns, or throws error, and leaves the store as ss, es, ts, ps
Return(c, error, ss, es, ts, ps) ==
    /\ lastCall' = c
    /\ err' = error
    /\ safeEntities' = ss.safes
    /\ safeByAddress' = ss.byAddress
    /\ safeByName' = ss.byName
    /\ eoas' = es.eoas
    /\ eoaByAddress' = es.byAddress
    /\ eoaByName' = es.byName
    /\ transactions' = ts.transactions
    /\ transactionBySafe' = ts.bySafe
    /\ transactionByHash' = ts.byHash
    /\ proposals' = ps.proposals
    /\ proposalByHash' = ps.byHash
    /\ proposalsBySafe' = ps.bySafe
    /\ UNCHANGED <<safes, kitVars, worldVars, pc, run, proposalIndexes, cursor, item,
                   nonces, resolved, safeKeys, stack, hasProposedOne, diskVars>>

CreateSafeCall ==
    /\ pc = "api"
    /\ \E safe \in ApiSafes :
          IF createSafeThrows(SafeStore, safe)
          THEN Return(ApiCall("createSafe", 0), "Safe already exists", SafeStore, EOAStore, TransactionStore, ProposalStore)
          ELSE /\ Entities < MaxEntities
               /\ Return(ApiCall("createSafe", 0), "", createSafe(SafeStore, EntityPath("safes", safe.name), safe),
                         EOAStore, TransactionStore, ProposalStore)

WriteSafeCall ==
    /\ pc = "api"
    \* the index of the code is index - 1; the Safe written is not null
    /\ \E index \in 0..MaxEntities, safe \in ApiSafes :
          IF writeSafeThrows(SafeStore, index)
          THEN Return(ApiCall("writeSafe", index), "Safe index out of bounds", SafeStore, EOAStore, TransactionStore,
                      ProposalStore)
          ELSE Return(ApiCall("writeSafe", index), "", writeSafe(SafeStore, index, safe), EOAStore, TransactionStore,
                      ProposalStore)

CreateEOACall ==
    /\ pc = "api"
    /\ \E eoa \in ApiEOAs :
          IF createEOAThrows(EOAStore, eoa)
          THEN Return(ApiCall("createEOA", 0), "EOA already exists", SafeStore, EOAStore, TransactionStore, ProposalStore)
          ELSE /\ Entities < MaxEntities
               /\ Return(ApiCall("createEOA", 0), "", SafeStore, createEOA(EOAStore, EntityPath("eoas", eoa.name), eoa),
                         TransactionStore, ProposalStore)

CreateTransactionCall ==
    /\ pc = "api"
    /\ \E hash \in ApiHashes :
          LET tx == [safe |-> "P", nonce |-> hash.links[1].nonce, executionDate |-> TRUE,
                     safeTxHash |-> hash]
          IN  IF createTransactionThrows(TransactionStore, tx)
              THEN Return(ApiCall("createTransaction", 0), "Transaction already exists", SafeStore, EOAStore, TransactionStore,
                          ProposalStore)
              ELSE /\ Entities < MaxEntities
                   /\ Return(ApiCall("createTransaction", 0), "", SafeStore, EOAStore,
                             createTransaction(TransactionStore, TransactionPath(tx), tx),
                             ProposalStore)

CreateProposalCall ==
    /\ pc = "api"
    /\ \E hash \in ApiHashes \cup {NoHash}, file \in {"f1", "f2"} :
          LET proposal == [ProposalFile(file, "P", NoNonce, FALSE).entity EXCEPT !.safeTxHash = hash]
          IN  IF createProposalThrows(ProposalStore, proposal)
              THEN Return(ApiCall("createProposal", 0), "Proposal already exists", SafeStore, EOAStore, TransactionStore,
                          ProposalStore)
              ELSE /\ Entities < MaxEntities
                   /\ Return(ApiCall("createProposal", 0), "", SafeStore, EOAStore, TransactionStore,
                             createProposal(ProposalStore, TopLevelPath(file), proposal))

\* the transactions the callers write: the first one they create, the same with
\* its hash in upper case, and one with another hash on another Safe
ApiTransactions ==
    { [safe |-> "P", nonce |-> 0, executionDate |-> TRUE,
       safeTxHash |-> ContractHash("P", 0, "sent", NoHash)],
      [safe |-> "P", nonce |-> 0, executionDate |-> TRUE,
       safeTxHash |-> [ContractHash("P", 0, "sent", NoHash) EXCEPT !.uc = TRUE]],
      [safe |-> "C", nonce |-> 1, executionDate |-> TRUE,
       safeTxHash |-> ContractHash("C", 1, "sent", NoHash)] }

WriteProposalCall ==
    /\ pc = "api"
    \* the index of the code is index - 1; the proposal written is not null
    /\ \E index \in 0..MaxEntities, hash \in ApiHashes \cup {NoHash} :
          LET proposal == [ProposalFile("f1", "P", NoNonce, FALSE).entity EXCEPT !.safeTxHash = hash]
              ps == writeProposal(ProposalStore, index, proposal)
          IN  IF writeProposalThrows(ProposalStore, index)
              THEN Return(ApiCall("writeProposal", index), "Proposal index out of bounds",
                          SafeStore, EOAStore, TransactionStore, ProposalStore)
              ELSE \* the by-safe list grows with every call
                   /\ \A safe \in DOMAIN ps.bySafe : Len(ps.bySafe[safe]) <= MaxEntities
                   /\ Return(ApiCall("writeProposal", index), "", SafeStore, EOAStore,
                             TransactionStore, ps)

WriteTransactionCall ==
    /\ pc = "api"
    \* the index of the code is index - 1; the transaction written is not null
    /\ \E index \in 0..MaxEntities, tx \in ApiTransactions :
          IF transactionIndexThrows(TransactionStore, index)
          THEN Return(ApiCall("writeTransaction", index), "Transaction index out of bounds",
                      SafeStore, EOAStore, TransactionStore, ProposalStore)
          ELSE IF transactionSafeThrows(TransactionStore, index)
          THEN Return(ApiCall("writeTransaction", index), "TypeError",
                      SafeStore, EOAStore, TransactionStore, ProposalStore)
          ELSE Return(ApiCall("writeTransaction", index), "", SafeStore, EOAStore,
                      writeTransaction(TransactionStore, index, tx), ProposalStore)

UnbindTransactionCall ==
    /\ pc = "api"
    /\ \E index \in 0..MaxEntities :
          IF transactionIndexThrows(TransactionStore, index)
          THEN Return(ApiCall("unbindTransaction", index), "Transaction index out of bounds",
                      SafeStore, EOAStore, TransactionStore, ProposalStore)
          ELSE IF transactionSafeThrows(TransactionStore, index)
          THEN Return(ApiCall("unbindTransaction", index), "TypeError",
                      SafeStore, EOAStore, TransactionStore, ProposalStore)
          ELSE Return(ApiCall("unbindTransaction", index), "", SafeStore, EOAStore,
                      unbindTransaction(TransactionStore, index), ProposalStore)

StoreNext ==
    \/ CreateSafeCall
    \/ WriteSafeCall
    \/ CreateEOACall
    \/ CreateTransactionCall
    \/ CreateProposalCall

StoreSpec == StoreInit /\ [][StoreNext]_vars

\* the transactions of the store on their own: any sequence of createTransaction,
\* writeTransaction and unbindTransaction calls
TransactionNext ==
    \/ CreateTransactionCall
    \/ WriteTransactionCall
    \/ UnbindTransactionCall

TransactionSpec == StoreInit /\ [][TransactionNext]_vars

\* the proposals of the store on their own: any sequence of createProposal and
\* writeProposal calls
ProposalNext ==
    \/ CreateProposalCall
    \/ WriteProposalCall

ProposalSpec == StoreInit /\ [][ProposalNext]_vars


(***************************************************************************)
(* The properties.                                                         *)
(***************************************************************************)

\* C1: no signature is requested, and no transaction is proposed, for a
\* transaction whose locally computed hash differs from the hash the deployed
\* Safe contract returns: the two are compared first and a disagreement is fatal.
C1_HashComparedBeforeSigning ==
    /\ \A i \in 1..Len(signedLog) : signedLog[i].hash.ok
    /\ \A i \in 1..Len(proposeLog) : proposeLog[i].hash.ok

\* C2: signTransactionHash and proposeTransaction are called only when upload
\* is enabled and dry-run is disabled; in every other mode no proposal gets a
\* safeTxHash and syncProposals returns false.
C2_SubmitOnlyWhenUploading ==
    (~shouldUpload \/ ~shouldWrite) =>
        /\ signedLog = <<>>
        /\ proposeLog = <<>>
        /\ \A i \in 1..Len(proposals) : proposals[i].entity.safeTxHash = NoHash
        /\ ~hasProposedOne

\* a run with --upload and --dry-run has gone through a proposal and the child
\* it synthesized, and has ended
C2_Witness ==
    /\ pc = "done"
    /\ shouldUpload /\ ~shouldWrite
    /\ \E i \in 1..Len(proposals) : proposals[i].entity.childOf # NoChildOf
    /\ \E i \in 1..Len(syncLog) : syncLog[i].child

\* C3: for every Safe, the nonces resolved in one resolution pass for its
\* pending top-level proposals are strictly increasing in processing order,
\* hence pairwise distinct, whatever the mix of nonce fields.
C3_ResolvedNoncesStrictlyIncreasing ==
    pc = "process" =>
        \A safe \in DOMAIN resolved :
            LET order == SortByNonce(resolved[safe])
            IN  \A i, j \in 1..Len(order) : i < j => order[i].nonce < order[j].nonce

\* C4: within one run, the calls of proposeTransaction that target one Safe,
\* top-level proposals and synthesized children together, have non-decreasing
\* nonces.
C4_ProposeCallsNonDecreasing ==
    \A i, j \in 1..Len(proposeLog) :
        (/\ i < j
         /\ proposeLog[i].run = proposeLog[j].run
         /\ proposeLog[i].safe = proposeLog[j].safe)
        => proposeLog[i].nonce <= proposeLog[j].nonce

\* C5: within one run, a synthesized child that targets a Safe never gets a
\* nonce equal to the nonce resolved in that run for another proposal that
\* targets the same Safe, top-level or child.
C5_ChildNonceNeverCollides ==
    \A i \in 1..Len(syncLog) :
        (syncLog[i].child /\ syncLog[i].run = run) =>
            /\ \A j \in 1..Len(syncLog) :
                  (/\ j # i
                   /\ syncLog[j].run = run
                   /\ syncLog[j].safe = syncLog[i].safe
                   /\ syncLog[j].path # syncLog[i].path)
                  => syncLog[j].nonce # syncLog[i].nonce
            /\ syncLog[i].safe \in DOMAIN resolved =>
                  \A k \in 1..Len(resolved[syncLog[i].safe]) :
                      resolved[syncLog[i].safe][k].nonce # syncLog[i].nonce

\* the proposal the resolution loop is at, and whether its step completes
InResolution == pc = "resolve" /\ pc' # "error"

\* the nonces of the transactions of `safe` in the store, all or executed only
StoredNonces(safe, executedOnly) ==
    { transactions[i].entity.nonce :
        i \in { j \in 1..Len(transactions) :
                  /\ transactions[j].entity.safe = safe
                  /\ executedOnly => transactions[j].entity.executionDate } }

\* one more than the highest number of S, 0 when S is empty
NextAfter(S) == IF S = {} THEN 0 ELSE MaxOf(S) + 1

\* an integer literal
IsLiteral(text) == Len(text) = 1 /\ IsNumTok(text[1])

\* C6: when a Safe is first referenced in a resolution pass, its counters are
\* nonce = highest executed nonce + 1 (0 if nothing is executed), pendingNonce =
\* highest nonce of any transaction + 1 (0 if there is none), auto = nonce.
C6_CountersInitialised ==
    [][InResolution =>
          LET proposal == proposals[proposalIndexes[cursor]].entity
              safe == proposal.safe
          IN  safe \notin DOMAIN nonces =>
                 /\ nonces'[safe].nonce = NextAfter(StoredNonces(safe, TRUE))
                 /\ nonces'[safe].pendingNonce = NextAfter(StoredNonces(safe, FALSE))
                 /\ (proposal.nonce = NoNonce \/ IsLiteral(proposal.nonce))
                       => nonces'[safe].auto = nonces'[safe].nonce]_vars

\* C7: for a Safe without any transaction in the store, the resolution of its
\* first top-level proposal without a nonce field completes without error and
\* gives it the nonce 0.
C7_FreshSafeStartsAtZero ==
    \A safe \in Safes :
        LET absent == { k \in 1..Len(proposalIndexes) :
                          /\ proposals[proposalIndexes[k]].entity.safe = safe
                          /\ proposals[proposalIndexes[k]].entity.nonce = NoNonce }
            first == proposalIndexes[CHOOSE k \in absent : \A l \in absent : k <= l]
        IN  (StoredNonces(safe, FALSE) = {} /\ absent # {}) =>
               /\ ~(pc = "error" /\ err = "TypeError")
               /\ pc = "process" =>
                     \E i \in 1..Len(resolved[safe]) :
                         resolved[safe][i] = [idx |-> first, nonce |-> 0]

\* C8: once a proposal without a nonce field has been submitted for a Safe with
\* nonce k and the store holds it as a pending transaction, the next proposal
\* without a nonce field for that Safe, resolved in a later pass, gets k + 1 and
\* never the nonce of the pending submission.
C8_NextAutoAfterPending ==
    pc = "process" =>
        \A safe \in DOMAIN resolved :
            LET submitted == { proposeLog[i].nonce :
                                 i \in { j \in 1..Len(proposeLog) :
                                           /\ proposeLog[j].run < run
                                           /\ proposeLog[j].safe = safe
                                           /\ proposeLog[j].field = NoNonce
                                           /\ \E t \in 1..Len(transactions) :
                                                 /\ transactions[t].entity.safeTxHash = proposeLog[j].hash
                                                 /\ ~transactions[t].entity.executionDate } }
                auto == { i \in 1..Len(resolved[safe]) :
                            proposals[resolved[safe][i].idx].entity.nonce = NoNonce }
            IN  (submitted # {} /\ auto # {}) =>
                   /\ \A i \in auto : resolved[safe][i].nonce \notin submitted
                   /\ \E i \in auto : resolved[safe][i].nonce = MaxOf(submitted) + 1

\* C9: a nonce field that is an integer literal k resolves to k whatever the
\* counters of the Safe are, and its resolution leaves the three counters as
\* they were.
C9_LiteralNonce ==
    [][InResolution =>
          LET proposal == proposals[proposalIndexes[cursor]].entity
              safe == proposal.safe
              c == IF safe \in DOMAIN nonces THEN nonces[safe] ELSE NonceDataOf(safe)
              list == resolved'[safe]
          IN  IsLiteral(proposal.nonce) =>
                 /\ list[Len(list)] = [idx |-> proposalIndexes[cursor],
                                       nonce |-> TokVal(proposal.nonce[1])]
                 /\ nonces'[safe] = c]_vars

\* the literal 5 has been resolved to 5 on a Safe whose counters are 1, 2 and 1
C9_Witness ==
    /\ pc = "auto"
    /\ \E safe \in DOMAIN resolved :
          /\ nonces[safe] = [nonce |-> 1, pendingNonce |-> 2, auto |-> 1]
          /\ \E i \in 1..Len(resolved[safe]) :
                /\ proposals[resolved[safe][i].idx].entity.nonce = <<"5">>
                /\ resolved[safe][i].nonce = 5

\* C10: a nonce field that is an expression and no integer literal resolves to
\* the value of the expression under a = auto, n = nonce, pn = pendingNonce as
\* they are when the proposal is resolved, a leading digit changing nothing.
C10_ExpressionNonce ==
    [][InResolution =>
          LET proposal == proposals[proposalIndexes[cursor]].entity
              safe == proposal.safe
              c == IF safe \in DOMAIN nonces THEN nonces[safe] ELSE NonceDataOf(safe)
              list == resolved'[safe]
          IN  (proposal.nonce # NoNonce /\ ~IsLiteral(proposal.nonce) /\ ValidExpr(proposal.nonce)) =>
                 list[Len(list)].nonce = EvalExpr(proposal.nonce, c)]_vars

\* C11: the resolution of an explicit nonce expression advances auto by one
\* exactly when the text contains `a` and the value of the expression is the
\* current auto; otherwise auto, nonce and pendingNonce stay as they are.
C11_AutoAdvancesOnlyOnUse ==
    [][InResolution =>
          LET proposal == proposals[proposalIndexes[cursor]].entity
              safe == proposal.safe
              c == IF safe \in DOMAIN nonces THEN nonces[safe] ELSE NonceDataOf(safe)
          IN  (proposal.nonce # NoNonce /\ ValidExpr(proposal.nonce)) =>
                 nonces'[safe] = IF /\ IncludesA(proposal.nonce)
                                    /\ EvalExpr(proposal.nonce, c) = c.auto
                                 THEN [c EXCEPT !.auto = @ + 1]
                                 ELSE c]_vars

\* C12: when the nonce field of a pending top-level proposal is neither an
\* integer literal nor a valid expression, syncProposals aborts before any
\* proposal of the run is simulated, estimated or submitted.
C12_InvalidNonceAborts ==
    /\ pc \in {"auto", "process", "done", "synced"} =>
          \A k \in 1..Len(proposalIndexes) :
              LET text == proposals[proposalIndexes[k]].entity.nonce
              IN  text = NoNonce \/ IsLiteral(text) \/ ValidExpr(text)
    /\ (pc = "error" /\ err = "Invalid nonce expression") =>
          \A i \in 1..Len(syncLog) : syncLog[i].run # run

\* the children of the proposal with hash `hash` on `safe` that the store holds
ChildrenOf(safe, hash) ==
    { i \in 1..Len(proposals) : proposals[i].entity.childOf = [safe |-> safe, hash |-> hash] }

\* an owner that gets a child: a contract, a Safe of the store, with the delegate
Eligible(owner, delegate) ==
    /\ owner \notin EOAs
    /\ owner \in DOMAIN safes
    /\ delegate \in safes[owner].delegates

\* the loop over the owners of the innermost activation has ended
OwnersDone ==
    /\ pc = "process"
    /\ stack # <<>>
    /\ Top.phase = "owners"
    /\ TopProposal.createChildProposals
    /\ Top.pos > Len(safes[TopProposal.safe].owners)

\* C13: once the owners of the Safe P of a proposal with createChildProposals
\* and hash H have been gone through, the children of (P, H) are exactly one
\* per owner that is a contract, a Safe of the store and carries the proposal's
\* delegate, each on that owner and with the same delegate; no other owner has one.
C13_OneChildPerEligibleOwner ==
    OwnersDone =>
        LET owners == safes[TopProposal.safe].owners
            children == ChildrenOf(TopProposal.safe, Top.hash)
        IN  /\ \A k \in 1..Len(owners) :
                  Cardinality({ i \in children : proposals[i].entity.safe = owners[k] })
                      = IF Eligible(owners[k], TopProposal.delegate) THEN 1 ELSE 0
            /\ \A i \in children :
                  /\ proposals[i].entity.delegate = TopProposal.delegate
                  /\ \E k \in 1..Len(owners) : proposals[i].entity.safe = owners[k]

\* P is owned by an EOA, an unmonitored contract, B without the delegate and C
\* with it; the loop has ended and the only child is the one on C
C13_Witness ==
    /\ OwnersDone
    /\ Len(stack) = 1
    /\ safes[TopProposal.safe].owners = <<"E", "X", "B", "C">>
    /\ ~Eligible("B", TopProposal.delegate)
    /\ \E i \in ChildrenOf(TopProposal.safe, Top.hash) : proposals[i].entity.safe = "C"

\* C14: when the child synthesis refers to an owner Safe whose counters are
\* not in the counter map yet, they are initialised from the transactions of
\* that owner Safe; the child gets the owner's auto, which advances by one.
C14_ChildCountersFromOwnSafe ==
    [][(pc = "process" /\ stack # <<>> /\ Len(stack') = Len(stack) + 1) =>
          LET child == stack'[Len(stack')]
              owner == proposals'[child.idx].entity.safe
          IN  IF owner \in DOMAIN nonces
              THEN /\ child.nonce = nonces[owner].auto
                   /\ nonces'[owner] = [nonces[owner] EXCEPT !.auto = @ + 1]
              ELSE /\ nonces'[owner].nonce = NextAfter(StoredNonces(owner, TRUE))
                   /\ nonces'[owner].pendingNonce = NextAfter(StoredNonces(owner, FALSE))
                   /\ child.nonce = nonces'[owner].nonce
                   /\ nonces'[owner].auto = child.nonce + 1]_vars

\* C15: the whole processing of a child, its descendants and its submission
\* included, is over before the submission step of its parent starts and
\* before the next owner of the parent's Safe is looked at.
C15_DepthFirst ==
    /\ \A f \in 1..(Len(stack) - 1) :
          LET parent == stack[f]
              child == stack[f + 1]
              owners == safes[proposals[parent.idx].entity.safe].owners
          IN  /\ parent.phase = "owners"
              /\ parent.pos <= Len(owners)
              /\ proposals[child.idx].entity.safe = owners[parent.pos]
              /\ proposals[child.idx].entity.childOf.hash = parent.hash
    /\ OwnersDone =>
          \A i \in 1..Len(syncLog) :
              (syncLog[i].run = run /\ syncLog[i].path.parent = Top.hash) =>
                  \E r \in 1..Len(Top.results) :
                      proposals[Top.results[r].idx].path = syncLog[i].path
    /\ \A i, j \in 1..Len(signedLog) :
          (/\ signedLog[i].run = signedLog[j].run
           /\ signedLog[j].path.parent = signedLog[i].hash) => j < i

\* P is owned by C and C by B, all with the delegate: the run has signed the
\* approval on B, then the approval on C, then the proposal on P
C15_Witness ==
    /\ Len(signedLog) = 3
    /\ signedLog[1].safe = "B" /\ signedLog[2].safe = "C" /\ signedLog[3].safe = "P"
    /\ signedLog[1].path.parent = signedLog[2].hash
    /\ signedLog[2].path.parent = signedLog[3].hash

\* C16: the child generation for a path the store already holds overwrites
\* that slot in place: however often it is repeated, the store has exactly one
\* proposal record with that path.
C16_ChildPathStaysUnique ==
    \A i \in 1..Len(syncLog) :
        syncLog[i].child =>
            Cardinality({ k \in 1..Len(proposals) : proposals[k].path = syncLog[i].path }) = 1

\* the second run has generated again the child whose path the first run created
C16_Witness ==
    /\ run = 2
    /\ \E i, j \in 1..Len(syncLog) :
          /\ syncLog[i].child /\ syncLog[i].run = 1
          /\ syncLog[j].run = 2 /\ syncLog[j].path = syncLog[i].path
          /\ Cardinality({ k \in 1..Len(proposals) : proposals[k].path = syncLog[i].path }) = 1

\* C17: the index k in the path of a child is the position (from 0) of the
\* child's Safe in the owners of the parent's Safe, whatever the delegates of
\* the owners listed before it, and no two proposals have the same parent
\* hash and index.
C17_ChildIndexIsOwnerPosition ==
    /\ \A i \in 1..Len(proposals) :
          proposals[i].path.parent # NoHash =>
              LET owners == safes[proposals[i].entity.childOf.safe].owners
                  k == proposals[i].path.ownerIdx
              IN  /\ k + 1 <= Len(owners)
                  /\ owners[k + 1] = proposals[i].entity.safe
    /\ \A i, j \in 1..Len(proposals) :
          (/\ i # j
           /\ proposals[i].path.parent # NoHash
           /\ proposals[i].path.parent = proposals[j].path.parent)
          => proposals[i].path.ownerIdx # proposals[j].path.ownerIdx

\* the Safes reached from the Safes of S in at most n steps through owners
\* that get a child for `delegate`
RECURSIVE ReachedFrom(_, _, _)
ReachedFrom(S, delegate, n) ==
    IF n = 0 THEN {}
    ELSE LET next == { o \in DOMAIN safes :
                         /\ Eligible(o, delegate)
                         /\ \E s \in S : \E k \in 1..Len(safes[s].owners) : safes[s].owners[k] = o }
         IN  next \cup ReachedFrom(next, delegate, n - 1)

\* the graph of these owners, seen from `safe`, has a cycle
CycleFrom(safe, delegate) ==
    \E s \in {safe} \cup ReachedFrom({safe}, delegate, Cardinality(DOMAIN safes)) :
        s \in ReachedFrom({s}, delegate, Cardinality(DOMAIN safes))

\* C18: with every estimation succeeding, the processing of a proposal with
\* createChildProposals ends exactly when the graph of the owner Safes that
\* carry its delegate, seen from its Safe, has no cycle; on a cycle the
\* recursion does not end: the call never returns and never fails.
C18_EndlessOnCycle ==
    (/\ stack # <<>>
     /\ ~flaky
     /\ proposals[stack[1].idx].entity.createChildProposals
     /\ CycleFrom(proposals[stack[1].idx].entity.safe, proposals[stack[1].idx].entity.delegate))
    => /\ stack[1].phase # "return"
       /\ pc # "error"

\* the slots of the Safes, of the EOAs
SafeSlots == 1..Len(safeEntities)

EOASlots == 1..Len(eoas)

\* the arrays and the indexes of the store
Arrays ==
    <<safeEntities, safeByAddress, safeByName, eoas, eoaByAddress, eoaByName,
      transactions, transactionBySafe, transactionByHash,
      proposals, proposalByHash, proposalsBySafe>>

\* the entity has that address, whatever the letter case
HasAddress(entity, address) == getAddress(entity.address) = getAddress(address)

\* C19: createSafe and createEOA fail when the address or the name is already
\* used by an entity of the same kind (so the entity a create call adds has an
\* address and a name that no slot of its kind held), createTransaction and
\* createProposal fail when the lower-cased safeTxHash is already indexed,
\* and a create call that fails leaves every array and every index unchanged.
C19_CreateFailsWhenUsed ==
    [][/\ Len(safeEntities') > Len(safeEntities) =>
            \A i \in SafeSlots :
               /\ ~HasAddress(safeEntities[i].entity, safeEntities'[Len(safeEntities')].entity.address)
               /\ safeEntities[i].entity.name # safeEntities'[Len(safeEntities')].entity.name
       /\ Len(eoas') > Len(eoas) =>
            \A i \in EOASlots :
               /\ ~HasAddress(eoas[i].entity, eoas'[Len(eoas')].entity.address)
               /\ eoas[i].entity.name # eoas'[Len(eoas')].entity.name
       /\ Len(transactions') > Len(transactions) =>
            ToLowerCase(transactions'[Len(transactions')].entity.safeTxHash)
               \notin DOMAIN transactionByHash
       /\ Len(proposals') > Len(proposals) =>
            \/ proposals'[Len(proposals')].entity.safeTxHash = NoHash
            \/ ToLowerCase(proposals'[Len(proposals')].entity.safeTxHash)
                  \notin DOMAIN proposalByHash
       /\ err' \in {"Safe already exists", "EOA already exists",
                    "Transaction already exists", "Proposal already exists"}
            => UNCHANGED Arrays]_vars

\* C20: after any sequence of createSafe and writeSafe calls no two Safe
\* slots hold the same address or the same name, and getSafeByAddress and
\* getSafeByName return exactly the entity of the slot that has that address,
\* that name (null when no slot has it).
C20_SafeSlotsUniqueAndFound ==
    /\ \A i, j \in SafeSlots :
          i # j => /\ ~HasAddress(safeEntities[i].entity, safeEntities[j].entity.address)
                   /\ safeEntities[i].entity.name # safeEntities[j].entity.name
    /\ \A i \in SafeSlots :
          /\ getSafeByAddress(SafeStore, safeEntities[i].entity.address) = safeEntities[i].entity
          /\ getSafeByName(SafeStore, safeEntities[i].entity.name) = safeEntities[i].entity
    /\ \A address \in {"P", "p", "C", "c"} :
          (\A i \in SafeSlots : ~HasAddress(safeEntities[i].entity, address))
             => getSafeByAddress(SafeStore, address) = NullEntity
    /\ \A name \in {"main", "ops"} :
          (\A i \in SafeSlots : safeEntities[i].entity.name # name)
             => getSafeByName(SafeStore, name) = NullEntity

\* the store holds a Safe with that address
SafeInStore(address) == \E i \in SafeSlots : HasAddress(safeEntities[i].entity, address)

\* C21: in every reachable store state the safe field of every transaction
\* and of every proposal is the address of a Safe present in the store (a
\* create call that references an unknown Safe is rejected).
C21_SafeFieldReferencesStoreSafe ==
    /\ \A i \in 1..Len(transactions) : SafeInStore(transactions[i].entity.safe)
    /\ \A i \in 1..Len(proposals) : SafeInStore(proposals[i].entity.safe)

\* the letter cases a hash can be written in
Cases(hash) == {[hash EXCEPT !.uc = b] : b \in BOOLEAN}

\* C22: after any sequence of load, createProposal and writeProposal calls
\* every safeTxHash that is set is stored in lower case, no two proposal slots
\* carry the same safeTxHash, and getProposalByHash(h), in any letter case of
\* h, returns the proposal whose hash is h.
C22_ProposalHashLowerUniqueFound ==
    /\ \A i \in 1..Len(proposals) : ~proposals[i].entity.safeTxHash.uc
    /\ \A i, j \in 1..Len(proposals) :
          (i # j /\ proposals[i].entity.safeTxHash # NoHash)
             => proposals[i].entity.safeTxHash # proposals[j].entity.safeTxHash
    /\ \A i \in 1..Len(proposals) :
          proposals[i].entity.safeTxHash # NoHash =>
             \A h \in Cases(proposals[i].entity.safeTxHash) :
                getProposalByHash(ProposalStore, h) = proposals[i].entity

\* how often a slot is listed in a by-safe list
TimesListed(bySafe, safe, index) ==
    IF safe \in DOMAIN bySafe
    THEN Cardinality({k \in 1..Len(bySafe[safe]) : bySafe[safe][k] = index})
    ELSE 0

\* the last call was that method and it returned without raising
Returned(op) == lastCall'.op = op /\ err' = ""

\* C23: after writeTransaction(i, tx) with a tx that is not null,
\* getTransactionByHash(tx.safeTxHash) returns tx, slot i is listed exactly
\* once in the by-safe index, under tx.safe, and the previous hash and the
\* previous Safe of the slot no longer lead to slot i when they differ from
\* those of tx.
C23_WriteTransactionReindexes ==
    [][Returned("writeTransaction") =>
          LET i == lastCall'.index
              tx == transactions'[i].entity
              old == transactions[i].entity
          IN  /\ getTransactionByHash(TransactionStore', tx.safeTxHash) = tx
              /\ TimesListed(transactionBySafe', tx.safe, i) = 1
              /\ \A safe \in DOMAIN transactionBySafe' :
                    safe # tx.safe => TimesListed(transactionBySafe', safe, i) = 0
              /\ ToLowerCase(old.safeTxHash) # tx.safeTxHash =>
                    \/ ToLowerCase(old.safeTxHash) \notin DOMAIN transactionByHash'
                    \/ transactionByHash'[ToLowerCase(old.safeTxHash)] # i
              /\ old.safe # tx.safe => TimesListed(transactionBySafe', old.safe, i) = 0]_vars

\* C24: unbindTransaction(i) removes slot i from the by-hash index and from
\* the by-safe list of its Safe and changes nothing else; afterwards
\* getTransactionByHash of the slot's hash finds nothing and a
\* createTransaction with that hash succeeds.
C24_UnbindRemovesSlotOnly ==
    [][Returned("unbindTransaction") =>
          LET i == lastCall'.index
              tx == transactions[i].entity
              hash == ToLowerCase(tx.safeTxHash)
          IN  /\ transactions' = transactions
              /\ \A safe \in DOMAIN transactionBySafe' :
                    TimesListed(transactionBySafe', safe, i) = 0
              /\ DOMAIN transactionBySafe' = DOMAIN transactionBySafe
              /\ \A safe \in DOMAIN transactionBySafe :
                    transactionBySafe'[safe] = FilterOut(transactionBySafe[safe], i)
              /\ \A h \in DOMAIN transactionByHash' : transactionByHash'[h] # i
              /\ \A h \in DOMAIN transactionByHash :
                    transactionByHash[h] # i =>
                       h \in DOMAIN transactionByHash' /\ transactionByHash'[h] = transactionByHash[h]
              /\ DOMAIN transactionByHash' \subseteq DOMAIN transactionByHash
              /\ getTransactionByHash(TransactionStore', tx.safeTxHash) = NullTransaction
              /\ ~createTransactionThrows(TransactionStore', tx)]_vars

\* the nonces of the transactions indexed for a Safe, all or executed only
IndexedNonces(safe, executedOnly) ==
    {transactions[transactionBySafe[safe][k]].entity.nonce :
        k \in {j \in 1..Len(transactionBySafe[safe]) :
                 executedOnly => transactions[transactionBySafe[safe][j]].entity.executionDate}}

\* m is the maximum of the set S
IsMaxOf(m, S) == m \in S /\ \A x \in S : x <= m

\* C25: for a Safe with at least one indexed transaction,
\* getHighestProposalNonce returns the maximum nonce over all of the Safe's
\* indexed transactions and getHighestExecutedProposalNonce returns the
\* maximum nonce over those that are executed.
C25_HighestNoncesAreMaxima ==
    \A safe \in DOMAIN transactionBySafe :
       Len(transactionBySafe[safe]) > 0 =>
          /\ IsMaxOf(getHighestProposalNonce(safe), IndexedNonces(safe, FALSE))
          /\ IsMaxOf(getHighestExecutedProposalNonce(safe), IndexedNonces(safe, TRUE))

(***************************************************************************)
(* save() on its own: a store of a few entities, some of them marked for   *)
(* deletion, and a working directory that holds some of their files, in    *)
(* the serializer's text or in another.                                    *)
(***************************************************************************)
\* the most proposals of the store that is saved
MaxSaved == 2

\* the proposal files of the repository
SaveFiles ==
    { ProposalFile("f1", "P", NoNonce, FALSE),
      [ProposalFile("f1", "P", NoNonce, FALSE)
          EXCEPT !.entity.safeTxHash = ContractHash("P", 0, "sent", NoHash)],
      ProposalFile("f2", "C", NoNonce, FALSE) }

\* the transaction of the repository
SaveTransaction ==
    [safe |-> "P", nonce |-> 0, executionDate |-> TRUE,
     safeTxHash |-> ContractHash("P", 0, "sent", NoHash)]

\* a file of the working directory that belongs to no entity
ReadmePath == EntityPath(".", "README.md")

\* no file at that path
Missing == [of |-> [text |-> ""], layout |-> "missing"]

\* what the working directory can hold at the paths of the entities
FileChoices ==
    (ConfigPath :> {yamlToString(GlobalConfig), HandWritten(GlobalConfig)})
    @@ (TopLevelPath("f1") :> {Missing, yamlToString(ProposalFile("f1", "P", NoNonce, FALSE).entity),
                               HandWritten(ProposalFile("f1", "P", NoNonce, FALSE).entity)})
    @@ (TopLevelPath("f2") :> {Missing, yamlToString(ProposalFile("f2", "C", NoNonce, FALSE).entity)})
    @@ (TransactionPath(SaveTransaction) :> {Missing, yamlToString(SaveTransaction)})
    @@ (EntityPath("safes", "main") :> {yamlToString([address |-> "P", name |-> "main"])})
    @@ (ReadmePath :> {HandWritten([text |-> "readme"])})

\* the working directories save() is called on
SaveDisks ==
    { [p \in {q \in DOMAIN FileChoices : c[q] # Missing} |-> c[p]] :
         c \in {f \in [DOMAIN FileChoices -> UNION {FileChoices[q] : q \in DOMAIN FileChoices}] :
                   \A q \in DOMAIN FileChoices : f[q] \in FileChoices[q]} }

\* writeProposal(i, null) or writeTransaction(i, null) on the slots chosen
MarkDeleted(list, dels) == [i \in 1..Len(list) |-> [list[i] EXCEPT !.del = dels[i]]]

\* the hashes that are set are pairwise distinct: load() does not throw
LoadsWithoutError(files) ==
    \A i, j \in 1..Len(files) :
       (i # j /\ files[i].entity.safeTxHash # NoHash)
          => files[i].entity.safeTxHash # files[j].entity.safeTxHash

SaveInit ==
    /\ NoRun
    /\ \E files \in {<<>>} \cup SeqsUpTo(SaveFiles, MaxSaved), withTx \in BOOLEAN :
          /\ LoadsWithoutError(files)
          /\ \E dels \in [1..Len(files) -> BOOLEAN], delTx \in BOOLEAN :
                LET ps == LoadProposals(EmptyProposalStore, files, 1)
                    ts == IF withTx
                          THEN createTransaction(EmptyTransactionStore,
                                                 TransactionPath(SaveTransaction), SaveTransaction)
                          ELSE EmptyTransactionStore
                    ss == createSafe(EmptySafeStore, EntityPath("safes", "main"),
                                     [address |-> "P", name |-> "main"])
                    es == createEOA(EmptyEOAStore, EntityPath("eoas", "E"),
                                    [address |-> "E", name |-> "E"])
                IN  /\ (~withTx => ~delTx)
                    /\ proposals = MarkDeleted(ps.proposals, dels)
                    /\ proposalByHash = ps.byHash
                    /\ proposalsBySafe = ps.bySafe
                    /\ transactions = [i \in 1..Len(ts.transactions) |->
                                          [ts.transactions[i] EXCEPT !.del = delTx]]
                    /\ transactionBySafe = ts.bySafe
                    /\ transactionByHash = ts.byHash
                    /\ safeEntities = ss.safes
                    /\ safeByAddress = ss.byAddress
                    /\ safeByName = ss.byName
                    /\ eoas = es.eoas
                    /\ eoaByAddress = es.byAddress
                    /\ eoaByName = es.byName
    /\ disk \in SaveDisks
    /\ touched = {}

SaveCall ==
    /\ pc = "api"
    /\ lastCall' = ApiCall("save", 0)
    /\ err' = ""
    /\ disk' = save(disk).disk
    /\ saveResult' = save(disk).commit
    /\ touched' = touched \cup Touched("entity", disk, save(disk).disk)
    /\ UNCHANGED <<storeVars, kitVars, worldVars, pc, run, proposalIndexes, cursor, item,
                   nonces, resolved, safeKeys, stack, hasProposedOne>>
    /\ UNCHANGED <<safeEntities, safeByAddress, safeByName, eoas, eoaByAddress, eoaByName>>

SaveNext == SaveCall

SaveSpec == SaveInit /\ [][SaveNext]_vars

\* the working directory before and after save() handles its k-th entity
DiskBefore(k) == SaveUpTo(SavedEntities, k - 1, [disk |-> disk, commit |-> NoSaveResult]).disk

DiskAfter(k) == SaveUpTo(SavedEntities, k, [disk |-> disk, commit |-> NoSaveResult]).disk

\* what handling the k-th entity did to its file
Created(k) ==
    /\ SavedEntities[k].path \notin DOMAIN DiskBefore(k)
    /\ SavedEntities[k].path \in DOMAIN DiskAfter(k)

Rewrote(k) ==
    /\ SavedEntities[k].path \in DOMAIN DiskBefore(k) \cap DOMAIN DiskAfter(k)
    /\ DiskBefore(k)[SavedEntities[k].path] # DiskAfter(k)[SavedEntities[k].path]

Deleted(k) ==
    /\ SavedEntities[k].path \in DOMAIN DiskBefore(k)
    /\ SavedEntities[k].path \notin DOMAIN DiskAfter(k)

\* the files a and b agree on every path but those of the set
SameExcept(a, b, paths) ==
    \A q \in (DOMAIN a \cup DOMAIN b) \ paths :
       q \in DOMAIN a /\ q \in DOMAIN b /\ a[q] = b[q]

\* C26: save() deletes the file of an entity marked for deletion if and only
\* if that file exists, writes the file of an unmarked entity if and only if
\* the file is missing or its content differs from the entity's
\* serialization, touches no other file, and returns creation, edit and
\* deletion counts equal to the number of files it created, rewrote and
\* deleted.
C26_SaveWritesWhatDiffers ==
    [][Returned("save") =>
          LET n == Len(SavedEntities)
          IN  /\ disk' = DiskAfter(n)
              /\ \A k \in 1..n :
                    LET e == SavedEntities[k]
                        exists == e.path \in DOMAIN DiskBefore(k)
                    IN  /\ e.del =>
                              /\ Deleted(k) <=> exists
                              /\ e.path \notin DOMAIN DiskAfter(k)
                        /\ ~e.del =>
                              /\ (Created(k) \/ Rewrote(k)) <=>
                                    (~exists \/ DiskBefore(k)[e.path] # yamlToString(e.entity))
                              /\ ~Deleted(k)
                              /\ DiskAfter(k)[e.path] = yamlToString(e.entity)
                        /\ SameExcept(DiskBefore(k), DiskAfter(k), {e.path})
              /\ SameExcept(disk, disk', {SavedEntities[k].path : k \in 1..n})
              /\ saveResult'.creations = Cardinality({k \in 1..n : Created(k)})
              /\ saveResult'.edits = Cardinality({k \in 1..n : Rewrote(k)})
              /\ saveResult'.deletions = Cardinality({k \in 1..n : Deleted(k)})]_vars

\* a save that created a file, rewrote one, deleted one and left one as it was
C26_Witness ==
    /\ lastCall.op = "save"
    /\ saveResult.creations >= 1
    /\ saveResult.edits >= 1
    /\ saveResult.deletions >= 1
    /\ \E k \in 1..Len(SavedEntities) :
          /\ ~SavedEntities[k].del
          /\ \A m \in 1..Len(saveResult.message) : saveResult.message[m][2] # SavedEntities[k].path

\* C27: if a sync run aborts with an error before the terminal save, no file
\* on disk has been created, modified or deleted by that run.
C27_AbortLeavesDiskUntouched ==
    pc = "error" => touched = {}

\* C28: with --dry-run a sync run creates, modifies or deletes no entity
\* file on disk, whatever the state of the store at the end of the run.
C28_DryRunWritesNoEntityFile ==
    ~shouldWrite => \A f \in touched : f.kind # "entity"

\* the errors of a simulation or an estimation that failed
FailureErrors == {"Proposal simulation error", "Safe estimation error"}

\* the simulation or the estimation of the innermost activation fails in this step
FailureStep ==
    /\ pc = "process"
    /\ stack # <<>>
    /\ Top.phase \in {"simulate", "estimate"}
    /\ \E e \in FailureErrors : stack' = ReturnTo(stack, <<Result(Top.idx, e, FALSE)>>)

\* the results of a top-level syncProposal are applied in this step
ResultsStep == pc = "process" /\ stack # <<>> /\ Top.phase = "return"

\* proposal q is a child synthesized for the proposal p
IsChildOf(q, p) ==
    /\ q.childOf # NoChildOf
    /\ q.childOf.safe = p.safe
    /\ q.childOf.hash.payload = (IF p.childOf # NoChildOf THEN p.childOf.hash.payload ELSE p.function)
    /\ Tail(q.childOf.hash.links) = p.childOf.hash.links

ProposeFailureStep ==
    /\ pc = "process"
    /\ stack # <<>>
    /\ Top.phase = "owners"
    /\ Len(signedLog') = Len(signedLog) + 1
    /\ proposeLog' = proposeLog

\* C30: a failure of proposeTransaction for one proposal is recorded as a
\* manifest error and does not abort the run: the proposal stays unsubmitted
\* and the remaining proposals are still processed.
C30_ProposeFailureRunContinues ==
    [][ProposeFailureStep =>
          /\ pc' = "process" /\ err' = ""
          /\ proposals'[Top.idx].entity.safeTxHash = NoHash
          /\ stack' # <<>>
          /\ \E i \in 1..Len(stack'[Len(stack')].results) :
                /\ stack'[Len(stack')].results[i].idx = Top.idx
                /\ stack'[Len(stack')].results[i].error # ""]_vars

\* the forge simulation of the innermost activation is evaluated in this step
SimulateStep == pc = "process" /\ stack # <<>> /\ Top.phase = "simulate"

\* C31: when the broadcast manifest of the simulator is missing after a
\* successful simulation, the proposal gets a result whose manifest carries an
\* error, and the run is not aborted by the file that cannot be read.
C31_MissingManifestRecorded ==
    [][SimulateStep =>
          /\ err' # "ENOENT"
          /\ pc' = "error" => err' = "Unsupported transctionType"]_vars

\* the errors raised for a delegate that is not registered or has no signer
AuthorizationErrors == {"Delegate not found", "Signer not loaded"}

\* C32: a proposal whose delegate is not registered on its Safe, or has no
\* loaded signer, raises an error only at the submission step (upload enabled
\* and not dry-run), after its simulation and estimation have completed and
\* been reported in its manifest; in any other mode no such error is raised.
C32_AuthorizationErrorAtSubmissionOnly ==
    [][err' \in AuthorizationErrors /\ err = "" =>
          /\ ShouldSubmit
          /\ pc = "process" /\ stack # <<>>
          /\ Top.phase = "owners"
          /\ Top.pos > Len(safes[TopProposal.safe].owners)
          /\ Top.hash # NoHash
          /\ proposals[Top.idx].path \in DOMAIN manifests'
          /\ manifests'[proposals[Top.idx].path] = ""]_vars

\* syncProposals is running
InSyncProposals == pc \in {"start", "resolve", "auto", "process"}

\* the proposal of slot i was submitted before the current run of syncProposals
SubmittedBefore(i) ==
    /\ proposals[i].entity.safeTxHash # NoHash
    /\ \A m \in 1..Len(proposeLog) :
          proposeLog[m].run = run => proposeLog[m].path # proposals[i].path

\* C33: a proposal whose safeTxHash is already set when syncProposals starts
\* is not resolved, simulated, estimated or submitted in that run, consumes
\* no nonce of its Safe, and its entity is left unchanged by syncProposals.
C33_SubmittedProposalSkipped ==
    [][InSyncProposals =>
          \A i \in 1..Len(proposals) :
             SubmittedBefore(i) =>
                /\ i <= Len(proposals') /\ proposals'[i] = proposals[i]
                /\ \A k \in 1..Len(proposalIndexes') : proposalIndexes'[k] # i
                /\ \A safe \in DOMAIN resolved' : \A k \in 1..Len(resolved'[safe]) :
                      resolved'[safe][k].idx # i
                /\ \A k \in 1..Len(stack') : stack'[k].idx # i
                /\ \A m \in 1..Len(syncLog') :
                      syncLog'[m].run = run => syncLog'[m].path # proposals[i].path
                /\ \A m \in 1..Len(signedLog') :
                      signedLog'[m].run = run => signedLog'[m].path # proposals[i].path]_vars

\* a later run has processed a pending proposal to its end while a proposal
\* submitted by an earlier run sits in the store, on the same Safe
C33_Witness ==
    /\ pc = "done"
    /\ run > 1
    /\ \E i, j \in 1..Len(proposals) :
          /\ SubmittedBefore(i)
          /\ proposals[i].entity.safe = proposals[j].entity.safe
          /\ \E m \in 1..Len(syncLog) :
                syncLog[m].run = run /\ syncLog[m].path = proposals[j].path

\* the proposal of slot i is submitted with success in this step
SubmittedNow(i) ==
    /\ Len(proposeLog') = Len(proposeLog) + 1
    /\ proposeLog'[Len(proposeLog')].path = proposals[i].path
    /\ stack # <<>> /\ Top.idx = i

\* C34: the nonce field of a proposal is written only by a successful
\* submission of that proposal, together with its safeTxHash; a proposal that
\* is resolved but not submitted keeps its nonce field as it was loaded, and
\* no operation of the store changes the nonce of the proposal it is given.
C34_NonceWrittenBySubmissionOnly ==
    [][\A i \in 1..Len(proposals) :
          /\ i <= Len(proposals')
          /\ proposals'[i].path = proposals[i].path
          /\ SubmittedNow(i) =>
                /\ proposals[i].entity.safeTxHash = NoHash
                /\ proposals'[i].entity.safeTxHash = proposeLog'[Len(proposeLog')].hash
                /\ proposals'[i].entity.nonce = NonceToString(proposeLog'[Len(proposeLog')].nonce)
          /\ ~SubmittedNow(i) =>
                proposals'[i].entity.nonce = proposals[i].entity.nonce]_vars

\* a run has ended in which one proposal without a nonce field was submitted
\* and got its nonce written, while another was processed, stays unsubmitted
\* and still has no nonce field
C34_Witness ==
    /\ pc = "done"
    /\ \E i, j \in 1..Len(proposals) :
          /\ proposals[i].entity.safeTxHash # NoHash
          /\ \E m \in 1..Len(proposeLog) :
                /\ proposeLog[m].path = proposals[i].path
                /\ proposeLog[m].field = NoNonce
                /\ proposals[i].entity.nonce = NonceToString(proposeLog[m].nonce)
          /\ proposals[j].entity.safeTxHash = NoHash
          /\ proposals[j].entity.nonce = NoNonce
          /\ \E m \in 1..Len(syncLog) :
                syncLog[m].run = run /\ syncLog[m].path = proposals[j].path

(***************************************************************************)
(* The transaction files over several sync commands: load, syncSafes, the  *)
(* service moving on while the command runs, the second syncSafes after an *)
(* upload, save.                                                           *)
(***************************************************************************)
\* the most sync commands in a row
MaxCommands == 2

\* the transactions of the Safe P the service can come to hold: one at nonce
\* 0, its rejection at the same nonce, one at nonce 1
ResyncHashes ==
    { ContractHash("P", 0, "sent", NoHash),
      ContractHash("P", 0, "rejection", NoHash),
      ContractHash("P", 1, "sent", NoHash) }

\* a transaction somebody proposes to the service
ServiceTransaction(hash, trusted) ==
    [safe |-> "P", nonce |-> hash.links[1].nonce, executionDate |-> FALSE,
     safeTxHash |-> hash, trusted |-> trusted]

\* State.loadTransactions throws when two files carry one hash
loadTransactionsThrows(slots) ==
    \E i, j \in 1..Len(slots) :
       /\ i < j
       /\ ~slots[i].del /\ ~slots[j].del
       /\ ToLowerCase(slots[i].entity.safeTxHash) = ToLowerCase(slots[j].entity.safeTxHash)

\* a repository with its configuration file, its Safes and an EOA; the
\* service holds no transaction yet; load() has run
ResyncInit ==
    /\ safes = [s \in Safes |-> [owners |-> FlatOwners[s], delegates |-> AllDelegate[s]]]
    /\ lastCall = NoCall
    /\ shouldUpload = TRUE
    /\ shouldWrite = TRUE
    /\ signers = {"D"}
    /\ mismatch = {}
    /\ flaky = FALSE
    /\ slack = <<>>
    /\ service = <<>>
    /\ pc = "loaded"
    /\ err = ""
    /\ run = 1
    /\ proposalIndexes = <<>>
    /\ cursor = 1
    /\ item = 1
    /\ nonces = <<>>
    /\ resolved = <<>>
    /\ safeKeys = <<>>
    /\ stack = <<>>
    /\ hasProposedOne = FALSE
    /\ signedLog = <<>>
    /\ proposeLog = <<>>
    /\ manifests = <<>>
    /\ syncLog = <<>>
    /\ saveResult = NoSaveResult
    /\ transactions = <<>>
    /\ transactionBySafe = <<>>
    /\ transactionByHash = <<>>
    /\ proposals = <<>>
    /\ proposalByHash = <<>>
    /\ proposalsBySafe = <<>>
    /\ LET ss == LoadSafes(EmptySafeStore, SafeList, 1)
           es == createEOA(EmptyEOAStore, EntityPath("eoas", "E"), [address |-> "E", name |-> "E"])
       IN  /\ safeEntities = ss.safes
           /\ safeByAddress = ss.byAddress
           /\ safeByName = ss.byName
           /\ eoas = es.eoas
           /\ eoaByAddress = es.byAddress
           /\ eoaByName = es.byName
    /\ disk = FilesOf(<<[path |-> ConfigPath, entity |-> GlobalConfig]>> \o safeEntities \o eoas, <<>>)
    /\ touched = {}

\* what a step of the service or of the store of transactions leaves alone
ResyncFrame ==
    UNCHANGED <<safes, proposals, proposalByHash, proposalsBySafe, kitVars, apiVars,
                err, proposalIndexes, cursor, item, nonces, resolved, safeKeys, stack,
                signedLog, proposeLog, manifests, syncLog>>

\* the environment: somebody proposes a transaction to the service
ServiceProposes ==
    /\ pc \in {"loaded", "proposals"}
    /\ \E hash \in ResyncHashes, trusted \in BOOLEAN :
          /\ \A k \in 1..Len(service) : service[k].safeTxHash # hash
          /\ ~hasFinalizedForNonce(service, hash.links[1].nonce)
          /\ service' = Append(service, ServiceTransaction(hash, trusted))
    /\ ResyncFrame
    /\ UNCHANGED <<transactions, transactionBySafe, transactionByHash, pc, run,
                   hasProposedOne, diskVars>>

\* the environment: the owners execute a pending transaction, the next of the Safe
ServiceExecutes ==
    /\ pc \in {"loaded", "proposals"}
    /\ \E k \in 1..Len(service) :
          /\ ~service[k].executionDate
          /\ ~hasFinalizedForNonce(service, service[k].nonce)
          /\ \A n \in 0..(service[k].nonce - 1) : hasFinalizedForNonce(service, n)
          /\ service' = [service EXCEPT ![k].executionDate = TRUE]
    /\ ResyncFrame
    /\ UNCHANGED <<transactions, transactionBySafe, transactionByHash, pc, run,
                   hasProposedOne, diskVars>>

\* stage 1 of the sync command: syncSafes
SyncSafesFirst ==
    /\ pc = "loaded"
    /\ LET ts == SyncSafeTransactions(TransactionStore, service, 1)
       IN  /\ transactions' = ts.transactions
           /\ transactionBySafe' = ts.bySafe
           /\ transactionByHash' = ts.byHash
    /\ pc' = "proposals"
    /\ ResyncFrame
    /\ UNCHANGED <<service, run, hasProposedOne, diskVars>>

\* stage 2, as the service sees it: syncProposals uploads a proposal
UploadProposal ==
    /\ pc = "proposals"
    /\ ~hasProposedOne
    /\ \E hash \in ResyncHashes :
          /\ \A k \in 1..Len(service) : service[k].safeTxHash # hash
          /\ ~hasFinalizedForNonce(service, hash.links[1].nonce)
          /\ service' = Append(service, ServiceTransaction(hash, TRUE))
    /\ hasProposedOne' = TRUE
    /\ ResyncFrame
    /\ UNCHANGED <<transactions, transactionBySafe, transactionByHash, pc, run, diskVars>>

\* stage 3: after an upload the Safes are synced again
SyncSafesAgain ==
    /\ pc = "proposals"
    /\ hasProposedOne
    /\ LET ts == SyncSafeTransactions(TransactionStore, service, 1)
       IN  /\ transactions' = ts.transactions
           /\ transactionBySafe' = ts.bySafe
           /\ transactionByHash' = ts.byHash
    /\ pc' = "synced"
    /\ ResyncFrame
    /\ UNCHANGED <<service, run, hasProposedOne, diskVars>>

\* the end of the sync command: the store is saved
SaveCommand ==
    /\ pc = "synced" \/ (pc = "proposals" /\ ~hasProposedOne)
    /\ disk' = save(disk).disk
    /\ saveResult' = save(disk).commit
    /\ touched' = touched \cup Touched("entity", disk, save(disk).disk)
    /\ pc' = "saved"
    /\ ResyncFrame
    /\ UNCHANGED <<service, transactions, transactionBySafe, transactionByHash, run,
                   hasProposedOne>>

\* the next sync command loads the transaction files the last one left
NextCommand ==
    /\ pc = "saved"
    /\ run < MaxCommands
    /\ IF loadTransactionsThrows(transactions)
       THEN /\ pc' = "error"
            /\ err' = "Transaction is defined twice"
            /\ UNCHANGED <<transactions, transactionBySafe, transactionByHash, run,
                           hasProposedOne, saveResult>>
       ELSE LET ts == LoadTransactions(EmptyTransactionStore, transactions, 1)
            IN  /\ transactions' = ts.transactions
                /\ transactionBySafe' = ts.bySafe
                /\ transactionByHash' = ts.byHash
                /\ pc' = "loaded"
                /\ run' = run + 1
                /\ hasProposedOne' = FALSE
                /\ saveResult' = NoSaveResult
                /\ err' = err
    /\ UNCHANGED <<safes, proposals, proposalByHash, proposalsBySafe, kitVars, apiVars,
                   proposalIndexes, cursor, item, nonces, resolved, safeKeys, stack,
                   worldVars, disk, touched>>

ResyncNext ==
    \/ ServiceProposes
    \/ ServiceExecutes
    \/ SyncSafesFirst
    \/ UploadProposal
    \/ SyncSafesAgain
    \/ SaveCommand
    \/ NextCommand

ResyncSpec == ResyncInit /\ [][ResyncNext]_vars

\* the records of the store that carry the hash and are not marked for deletion
LiveRecords(hash) ==
    {i \in 1..Len(transactions) :
        /\ ~transactions[i].del
        /\ ToLowerCase(transactions[i].entity.safeTxHash) = ToLowerCase(hash)}

\* C35: after the syncSafe passes of one run, the re-sync after an upload
\* included, each safeTxHash is carried by at most one transaction record
\* that is not marked for deletion, so save() never leaves two files for the
\* same transaction.
C35_OneLiveRecordPerHash ==
    /\ \A hash \in ResyncHashes : Cardinality(LiveRecords(hash)) <= 1
    /\ pc = "saved" =>
          \A p, q \in DOMAIN disk :
             (p \in {transactions[i].path : i \in 1..Len(transactions)}
                /\ q \in {transactions[i].path : i \in 1..Len(transactions)}
                /\ p.hash = q.hash) => p = q

\* the service returns a trusted transaction that no executed transaction of
\* the same nonce has superseded, and whose storage path is `path`
ReturnedAt(path) ==
    \E k \in 1..Len(service) :
       /\ service[k].trusted
       /\ service[k].executionDate
             \/ ~hasFinalizedForNonce(TransactionsOf(service, service[k].safe), service[k].nonce)
       /\ TransactionPath(service[k]) = path

\* syncSafes runs in this step
PassStep == (pc = "loaded" /\ pc' = "proposals") \/ (pc = "proposals" /\ pc' = "synced")

\* C36: a transaction file present at load is deleted by save() if and only
\* if, during the run, the service did not return that transaction as a
\* trusted, non-superseded transaction at the same storage path: a record
\* stays marked for deletion through a syncSafes pass exactly when the pass
\* is not given its transaction at its path, and save() deletes exactly the
\* files of the records still marked.
C36_FileDeletedIffNotReturned ==
    [][/\ PassStep =>
             \A i \in 1..Len(transactions) :
                /\ i <= Len(transactions')
                /\ transactions'[i].path = transactions[i].path
                /\ transactions'[i].del <=> (transactions[i].del /\ ~ReturnedAt(transactions[i].path))
       /\ pc' = "saved" =>
             \A i \in 1..Len(transactions) :
                transactions[i].path \in DOMAIN disk =>
                   (transactions[i].path \notin DOMAIN disk' <=> transactions[i].del)]_vars

\* a command has saved: the file of a transaction the service no longer
\* returned at its path is gone, the file of another that was returned again
\* at its path is still there, untouched
C36_Witness ==
    /\ pc = "saved"
    /\ run > 1
    /\ \E i, j \in 1..Len(transactions) :
          /\ transactions[i].del
          /\ transactions[i].path \notin DOMAIN disk
          /\ \E m \in 1..Len(saveResult.message) :
                saveResult.message[m] = <<"delete", transactions[i].path>>
          /\ ~transactions[j].del
          /\ transactions[j].path \in DOMAIN disk
          /\ ReturnedAt(transactions[j].path)
          /\ \A m \in 1..Len(saveResult.message) :
                saveResult.message[m][2] # transactions[j].path

\* C37: every synthesized child proposal that is still unsubmitted at the end
\* of a run is processed again by the next run of syncProposals: when a later
\* run ends, each child without a safeTxHash has been given to syncProposal
\* in that run.
C37_UnsubmittedChildProcessedAgain ==
    (pc = "done" /\ run > 1) =>
       \A i \in 1..Len(proposals) :
          (proposals[i].entity.childOf # NoChildOf /\ proposals[i].entity.safeTxHash = NoHash) =>
             \E m \in 1..Len(syncLog) :
                syncLog[m].run = run /\ syncLog[m].path = proposals[i].path

(***************************************************************************)
(* syncSafes: the owners and the delegates of the Safes of the store are   *)
(* resolved; an address that is a Safe the store does not hold is synced   *)
(* in its turn, by recursion.  Here `safes` is what the transaction        *)
(* service answers to getSafeInfo and getSafeDelegates, for every Safe it  *)
(* knows, in the store or not.                                             *)
(***************************************************************************)
\* the deepest recursion of syncSafe the model follows
MaxSyncDepth == 4

\* the owners the service can report for a Safe
OwnerLists == { <<"E">>, <<"C">>, <<"B">>, <<"P">>, <<"E", "C">>, <<"X", "B">> }

\* the delegates the service can report for a Safe: none, an EOA, the Safe B
DelegateSets == { {}, {"E"}, {"B"} }

\* the elements of a set, one after the other
RECURSIVE SeqOf(_)
SeqOf(S) ==
    IF S = {} THEN <<>>
    ELSE LET x == CHOOSE y \in S : TRUE IN <<x>> \o SeqOf(S \ {x})

\* an activation of syncSafe: the Safe, which of the two calls of
\* syncAddresses is running, the position of its loop, the addresses found
SafeFrame(address) == [safe |-> address, phase |-> "owners", pos |-> 1, found |-> <<>>]

\* the argument of the call of syncAddresses that runs in the activation
AddressesOf(frame) ==
    IF frame.phase = "owners" THEN safes[frame.safe].owners ELSE SeqOf(safes[frame.safe].delegates)

isMonitoredSafe(address) == getSafeByAddress(SafeStore, address) # NullEntity

isMonitoredEOA(address) == getEOAByAddress(EOAStore, address) # NullEntity

\* lines 220-230: the addresses syncSafe retrieved are added to the store
RECURSIVE CreateRetrieved(_, _, _)
CreateRetrieved(acc, list, i) ==
    IF i > Len(list) THEN acc
    ELSE LET addr == list[i]
             entity == [address |-> addr.address, name |-> addr.address]
         IN  IF addr.type = "eoa"
             THEN CreateRetrieved(
                     IF getEOAByAddress(acc.es, addr.address) = NullEntity
                     THEN [acc EXCEPT !.es = createEOA(@, EntityPath("eoas", addr.address), entity)]
                     ELSE acc, list, i + 1)
             ELSE CreateRetrieved(
                     IF getSafeByAddress(acc.ss, addr.address) = NullEntity
                     THEN [acc EXCEPT !.ss = createSafe(@, EntityPath("safes", addr.address), entity)]
                     ELSE acc, list, i + 1)

\* the store holds the Safe P, and perhaps the Safe C and the EOA E; the
\* service knows the Safes P, C and B
SyncSafesInit ==
    /\ safes \in [Safes -> [owners : OwnerLists, delegates : DelegateSets]]
    \* a Safe is not an owner of itself, nor its own delegate
    /\ \A s \in Safes : s \notin Range(safes[s].owners) /\ s \notin safes[s].delegates
    /\ \E monitored \in { <<"P">>, <<"P", "C">> }, known \in BOOLEAN :
          LET ss == LoadSafes(EmptySafeStore, monitored, 1)
              es == IF known
                    THEN createEOA(EmptyEOAStore, EntityPath("eoas", "E"), [address |-> "E", name |-> "E"])
                    ELSE EmptyEOAStore
          IN  /\ safeEntities = ss.safes
              /\ safeByAddress = ss.byAddress
              /\ safeByName = ss.byName
              /\ eoas = es.eoas
              /\ eoaByAddress = es.byAddress
              /\ eoaByName = es.byName
    /\ lastCall = NoCall
    /\ shouldUpload = FALSE
    /\ shouldWrite = TRUE
    /\ signers = {}
    /\ mismatch = {}
    /\ flaky = FALSE
    /\ slack = <<>>
    /\ service = <<>>
    /\ pc = "syncSafes"
    /\ err = ""
    /\ run = 1
    /\ proposalIndexes = <<>>
    /\ cursor = 1
    /\ item = 1
    /\ nonces = <<>>
    /\ resolved = <<>>
    /\ safeKeys = <<>>
    /\ stack = <<>>
    /\ hasProposedOne = FALSE
    /\ signedLog = <<>>
    /\ proposeLog = <<>>
    /\ manifests = <<>>
    /\ syncLog = <<>>
    /\ saveResult = NoSaveResult
    /\ transactions = <<>>
    /\ transactionBySafe = <<>>
    /\ transactionByHash = <<>>
    /\ proposals = <<>>
    /\ proposalByHash = <<>>
    /\ proposalsBySafe = <<>>
    /\ disk = FilesOf(<<[path |-> ConfigPath, entity |-> GlobalConfig]>> \o safeEntities \o eoas, <<>>)
    /\ touched = {}

\* what a step of syncSafes leaves alone
SyncSafesFrame ==
    UNCHANGED <<storeVars, kitVars, worldVars, diskVars, lastCall, err, run, proposalIndexes,
                item, nonces, resolved, safeKeys, hasProposedOne>>

\* line 216-218: the loop of syncSafes calls syncSafe for the next Safe of the store
BeginSyncSafe ==
    /\ pc = "syncSafes"
    /\ stack = <<>>
    /\ cursor <= Len(safeEntities)
    /\ stack' = <<SafeFrame(safeEntities[cursor].entity.address)>>
    /\ SyncSafesFrame
    /\ UNCHANGED <<pc, cursor, safeEntities, safeByAddress, safeByName, eoas, eoaByAddress,
                   eoaByName>>

\* one iteration of the loop of syncAddresses (lines 241-270)
SyncAddress ==
    /\ pc = "syncSafes"
    /\ stack # <<>>
    /\ Top.pos <= Len(AddressesOf(Top))
    /\ LET addr == AddressesOf(Top)[Top.pos]
           skip == [stack EXCEPT ![Len(stack)].pos = @ + 1]
       IN  IF isEOA(addr)
           THEN IF isMonitoredEOA(addr)
                THEN stack' = skip
                ELSE stack' = [skip EXCEPT ![Len(stack)].found =
                                              Append(@, [type |-> "eoa", address |-> addr])]
           ELSE IF isMonitoredSafe(addr)
           THEN stack' = skip
           ELSE IF addr \notin DOMAIN safes
           \* getSafeInfo throws: the owner is a contract that is not a Safe
           THEN stack' = skip
           ELSE /\ Len(stack) < MaxSyncDepth
                /\ stack' = Append(stack, SafeFrame(addr))
    /\ SyncSafesFrame
    /\ UNCHANGED <<pc, cursor, safeEntities, safeByAddress, safeByName, eoas, eoaByAddress,
                   eoaByName>>

\* lines 312-316: the owners are resolved, the delegates come next
ResolveDelegates ==
    /\ pc = "syncSafes"
    /\ stack # <<>>
    /\ Top.phase = "owners"
    /\ Top.pos > Len(AddressesOf(Top))
    /\ stack' = [stack EXCEPT ![Len(stack)] = [@ EXCEPT !.phase = "delegates", !.pos = 1]]
    /\ SyncSafesFrame
    /\ UNCHANGED <<pc, cursor, safeEntities, safeByAddress, safeByName, eoas, eoaByAddress,
                   eoaByName>>

\* line 359: syncSafe returns what it found and the Safe itself, to
\* syncAddresses (lines 262-265) or to syncSafes (lines 218-230)
ReturnSyncSafe ==
    /\ pc = "syncSafes"
    /\ stack # <<>>
    /\ Top.phase = "delegates"
    /\ Top.pos > Len(AddressesOf(Top))
    /\ LET retrievedAddresses == Append(Top.found, [type |-> "safe", address |-> Top.safe])
       IN  IF Len(stack) > 1
           THEN /\ stack' = Append(SubSeq(stack, 1, Len(stack) - 2),
                                   [stack[Len(stack) - 1] EXCEPT !.found = @ \o retrievedAddresses,
                                                                 !.pos = @ + 1])
                /\ UNCHANGED <<cursor, safeEntities, safeByAddress, safeByName, eoas,
                               eoaByAddress, eoaByName>>
           ELSE LET written == writeSafe(SafeStore, cursor, safeEntities[cursor].entity)
                    out == CreateRetrieved([ss |-> written, es |-> EOAStore], Top.found, 1)
                IN  /\ stack' = <<>>
                    /\ cursor' = cursor + 1
                    /\ safeEntities' = out.ss.safes
                    /\ safeByAddress' = out.ss.byAddress
                    /\ safeByName' = out.ss.byName
                    /\ eoas' = out.es.eoas
                    /\ eoaByAddress' = out.es.byAddress
                    /\ eoaByName' = out.es.byName
    /\ pc' = pc
    /\ SyncSafesFrame

\* line 216: the loop has gone through the Safes of the store, those it added included
EndSyncSafes ==
    /\ pc = "syncSafes"
    /\ stack = <<>>
    /\ cursor > Len(safeEntities)
    /\ pc' = "done"
    /\ SyncSafesFrame
    /\ UNCHANGED <<stack, cursor, safeEntities, safeByAddress, safeByName, eoas, eoaByAddress,
                   eoaByName>>

SyncSafesNext ==
    \/ BeginSyncSafe
    \/ SyncAddress
    \/ ResolveDelegates
    \/ ReturnSyncSafe
    \/ EndSyncSafes

SyncSafesSpec == SyncSafesInit /\ [][SyncSafesNext]_vars

\* C38: syncSafes terminates for every finite graph of owners and delegates
\* the service returns, cycles among Safes the store does not hold included:
\* the recursion of syncSafe never comes back to a Safe it is already
\* syncing, from where it would go round for ever.
C38_SyncSafesTerminates ==
    pc = "syncSafes" =>
       \A i, j \in 1..Len(stack) : (i # j) => stack[i].safe # stack[j].safe

(***************************************************************************)
(* The Slack notifications of the submitted proposals (handleNotifications *)
(* of the sync command): the pass over the tracking entries, between the   *)
(* syncs of the Safes and the save, over several commands.                 *)
(***************************************************************************)
\* safe.notifications.slack.channels of the Safe P
SlackChannels == { <<"ops">>, <<"ops", "dev">> }

\* msg.message of an entry no notification was posted for yet
NoMessage == 0

\* msg.hash of such an entry
NoStateHash == <<>>

\* safe.threshold: no step changes it
Threshold == 1

\* the entries the submission gives a proposal: channels.map(channel => ({ channel }))
SubmittedNotifications(channels) ==
    [slack |-> [k \in 1..Len(channels) |->
                   [channel |-> channels[k], hash |-> NoStateHash, message |-> NoMessage]]]

\* proposalConfig.notifications = ...
WithNotifications(proposal, notifications) ==
    [f \in DOMAIN proposal \cup {"notifications"} |->
        IF f = "notifications" THEN notifications ELSE proposal[f]]

\* const { notifications, ...hashableProposal } = proposal
HashableProposal(proposal) == [f \in DOMAIN proposal \ {"notifications"} |-> proposal[f]]

\* transaction.isExecuted: the service sets it together with the execution date
isExecuted(tx) == tx.executionDate

\* getRejectionTransaction: the first other transaction of the Safe with the
\* same nonce that sends nothing to the Safe itself; null if none
getRejectionTransaction(ts, transaction) ==
    LET others == ts.bySafe[transaction.safe]
        hits == {k \in 1..Len(others) :
                    LET other == ts.transactions[others[k]].entity
                    IN  /\ other.nonce = transaction.nonce
                        /\ other.safeTxHash.payload = "rejection"
                        /\ ToLowerCase(other.safeTxHash) # ToLowerCase(transaction.safeTxHash)}
    IN  IF hits = {} THEN NullTransaction
        ELSE ts.transactions[others[CHOOSE k \in hits : \A j \in hits : k <= j]].entity

\* utils.hashMessage over the texts of the proposal without its entries, of
\* the transaction, of the rejection and of the threshold
StateHash(proposal, transaction, rejection) ==
    <<yamlToString(HashableProposal(proposal)), yamlToString(transaction),
      yamlToString(rejection), Threshold>>

\* getStatusTextAndColor: what the message shows
StatusText(transaction, rejection) ==
    IF rejection # NullTransaction /\ isExecuted(rejection) THEN "rejected onchain"
    ELSE IF isExecuted(transaction) THEN "executed onchain"
    ELSE "not executed"

\* notifySlack when the Web API answers: chat.postMessage for an entry without
\* a message, chat.update otherwise; the messages of Slack and the id returned
notifySlack(messages, transaction, rejection, channel, msgId) ==
    LET shown == [channel |-> channel, status |-> StatusText(transaction, rejection)]
    IN  IF msgId = NoMessage
        THEN [messages |-> Append(messages, shown), id |-> Len(messages) + 1]
        ELSE [messages |-> [messages EXCEPT ![msgId] = shown], id |-> msgId]

\* lines 50-77: the loop over proposal.notifications.slack; outcomes[k] tells
\* whether notifySlack answers or throws for entry k; acc holds the messages
\* of Slack and updatedSlackNotifications
RECURSIVE SlackLoop(_, _, _, _, _, _, _)
SlackLoop(entries, k, outcomes, hash, transaction, rejection, acc) ==
    IF k > Len(entries) THEN acc
    ELSE LET msg == entries[k]
         IN  IF hash # msg.hash
             THEN IF outcomes[k] = "ok"
                  THEN LET sent == notifySlack(acc.messages, transaction, rejection,
                                               msg.channel, msg.message)
                           updated == [msg EXCEPT !.hash = hash, !.message = sent.id]
                       IN  SlackLoop(entries, k + 1, outcomes, hash, transaction, rejection,
                              [messages |-> sent.messages,
                               kept |-> IF ~(isExecuted(transaction)
                                             \/ (rejection # NullTransaction
                                                   /\ isExecuted(rejection)))
                                        THEN Append(acc.kept, updated)
                                        ELSE acc.kept])
                  ELSE SlackLoop(entries, k + 1, outcomes, hash, transaction, rejection, acc)
             ELSE SlackLoop(entries, k + 1, outcomes, hash, transaction, rejection,
                     [acc EXCEPT !.kept = Append(@, msg)])

\* the notification pass over the one proposal at slot i, when it has a hash,
\* entries and a transaction in the store
NotifyProposal(i, outcomes) ==
    LET proposal == proposals[i].entity
        transaction == getTransactionByHash(TransactionStore, proposal.safeTxHash)
        rejection == getRejectionTransaction(TransactionStore, transaction)
        hash == StateHash(proposal, transaction, rejection)
        done == SlackLoop(proposal.notifications.slack, 1, outcomes, hash, transaction,
                          rejection, [messages |-> slack, kept |-> <<>>])
    IN  [messages |-> done.messages,
         store |-> writeProposal(ProposalStore, i,
                                 [proposal EXCEPT !.notifications = [slack |-> done.kept]])]

\* the proposal of the Safe P whose upload the command has just made, as the
\* submission leaves it (lines 1307-1317)
UploadedProposal(channels) ==
    LET file == ProposalFile("f1", "P", <<"0">>, FALSE)
        hash == ContractHash("P", 0, "sent", NoHash)
    IN  [path |-> file.path,
         entity |-> WithNotifications([file.entity EXCEPT !.safeTxHash = hash],
                                      SubmittedNotifications(channels))]

\* the repository right after that upload (stage 2 of the sync command): the
\* proposal carries its hash and one entry for each channel of the Safe, the
\* service holds its transaction, Slack holds no message
NotifyInit ==
    /\ safes = [s \in Safes |-> [owners |-> FlatOwners[s], delegates |-> AllDelegate[s]]]
    /\ lastCall = NoCall
    /\ shouldUpload = TRUE
    /\ shouldWrite = TRUE
    /\ signers = {"D"}
    /\ mismatch = {}
    /\ flaky = TRUE
    /\ slack = <<>>
    /\ service = <<ServiceTransaction(ContractHash("P", 0, "sent", NoHash), TRUE)>>
    /\ pc = "proposals"
    /\ err = ""
    /\ run = 1
    /\ proposalIndexes = <<>>
    /\ cursor = 1
    /\ item = 1
    /\ nonces = <<>>
    /\ resolved = <<>>
    /\ safeKeys = <<>>
    /\ stack = <<>>
    /\ hasProposedOne = TRUE
    /\ signedLog = <<>>
    /\ proposeLog = <<>>
    /\ manifests = <<>>
    /\ syncLog = <<>>
    /\ saveResult = NoSaveResult
    /\ transactions = <<>>
    /\ transactionBySafe = <<>>
    /\ transactionByHash = <<>>
    /\ \E channels \in SlackChannels :
          LET ps == createProposal(EmptyProposalStore, UploadedProposal(channels).path,
                                   UploadedProposal(channels).entity)
          IN  /\ proposals = ps.proposals
              /\ proposalByHash = ps.byHash
              /\ proposalsBySafe = ps.bySafe
    /\ LET ss == LoadSafes(EmptySafeStore, SafeList, 1)
           es == createEOA(EmptyEOAStore, EntityPath("eoas", "E"), [address |-> "E", name |-> "E"])
       IN  /\ safeEntities = ss.safes
           /\ safeByAddress = ss.byAddress
           /\ safeByName = ss.byName
           /\ eoas = es.eoas
           /\ eoaByAddress = es.byAddress
           /\ eoaByName = es.byName
    /\ disk = FilesOf(<<[path |-> ConfigPath, entity |-> GlobalConfig]>> \o safeEntities \o eoas
                         \o <<ProposalFile("f1", "P", <<"0">>, FALSE)>>, <<>>)
    /\ touched = {}

\* commands/sync.ts 243-245 with notifications/index.ts 28-82: after the
\* syncs of the Safes, every proposal with a hash and entries that has a
\* transaction in the store is notified and written back
handleNotifications ==
    /\ pc = "synced" \/ (pc = "proposals" /\ ~hasProposedOne)
    /\ IF shouldWrite /\ shouldUpload
          /\ getTransactionByHash(TransactionStore, proposals[1].entity.safeTxHash)
                # NullTransaction
       THEN \E outcomes \in [1..Len(proposals[1].entity.notifications.slack) ->
                                IF flaky THEN {"ok", "error"} ELSE {"ok"}] :
               LET done == NotifyProposal(1, outcomes)
               IN  /\ slack' = done.messages
                   /\ proposals' = done.store.proposals
                   /\ proposalByHash' = done.store.byHash
                   /\ proposalsBySafe' = done.store.bySafe
       ELSE UNCHANGED <<slack, proposals, proposalByHash, proposalsBySafe>>
    /\ pc' = "notified"
    /\ UNCHANGED <<safes, transactions, transactionBySafe, transactionByHash, shouldUpload,
                   shouldWrite, signers, mismatch, flaky, service, err, run, proposalIndexes,
                   cursor, item, nonces, resolved, safeKeys, stack, hasProposedOne,
                   signedLog, proposeLog, manifests, syncLog, apiVars, diskVars>>

\* the end of the sync command: the store is saved with what the pass wrote
SaveNotified ==
    /\ pc = "notified"
    /\ disk' = save(disk).disk
    /\ saveResult' = save(disk).commit
    /\ touched' = touched \cup Touched("entity", disk, save(disk).disk)
    /\ pc' = "saved"
    /\ ResyncFrame
    /\ UNCHANGED <<service, transactions, transactionBySafe, transactionByHash, run,
                   hasProposedOne>>

NotifyNext ==
    \/ ServiceProposes
    \/ ServiceExecutes
    \/ SyncSafesFirst
    \/ SyncSafesAgain
    \/ handleNotifications
    \/ SaveNotified
    \/ NextCommand

NotifySpec == NotifyInit /\ [][NotifyNext]_vars

\* the entry of that channel among the entries of the proposal at slot 1
EntryOf(ps, channel) ==
    {k \in 1..Len(ps[1].entity.notifications.slack) :
        ps[1].entity.notifications.slack[k].channel = channel}

\* the hash the notification pass computes for the proposal at slot 1
CurrentStateHash ==
    LET proposal == proposals[1].entity
        transaction == getTransactionByHash(TransactionStore, proposal.safeTxHash)
    IN  StateHash(proposal, transaction, getRejectionTransaction(TransactionStore, transaction))

\* C39: a Slack tracking entry of a submitted proposal leaves the proposal
\* only in a pass after which its channel holds a message showing the
\* transaction executed or rejected onchain; an entry whose stored hash is
\* the current one stays and nothing is sent to its channel; a pass whose
\* delivery to a channel fails (the channel's messages stay as they were)
\* keeps the entry of that channel.
C39_EntryRemovedOnlyAfterExecutedNotification ==
    [][handleNotifications =>
        \A k \in 1..Len(proposals[1].entity.notifications.slack) :
           LET msg == proposals[1].entity.notifications.slack[k]
               before == SelectSeq(slack, LAMBDA m : m.channel = msg.channel)
               after == SelectSeq(slack', LAMBDA m : m.channel = msg.channel)
               found == getTransactionByHash(TransactionStore, proposals[1].entity.safeTxHash)
                           # NullTransaction
           IN  /\ EntryOf(proposals', msg.channel) = {} =>
                    \E j \in 1..Len(after) :
                       after[j].status \in {"executed onchain", "rejected onchain"}
               /\ (found /\ msg.hash = CurrentStateHash) =>
                    /\ EntryOf(proposals', msg.channel) # {}
                    /\ after = before
               /\ after = before => EntryOf(proposals', msg.channel) # {}]_vars

====
